---- MODULE Spec2Model ----
(***************************************************************************)
(* Brick Deal Hunter: the synchronisation pipeline of the cloud functions  *)
(* (catalog fetch, chunked catalog upsert, price job, deal evaluation,     *)
(* retention sweep) as a state machine.                                    *)
(*                                                                         *)
(* Money is held in cents (an integer), so "rounded to 2 decimals" is a    *)
(* rounding to a whole number of cents.  Time is held in milliseconds.     *)
(* Of a LegoSet the fields setNumber, name, price, imageUrl, pieces and    *)
(* availability are modelled; url, theme, themeId and year are copied      *)
(* through by the code exactly as imageUrl is and are left out.            *)
(***************************************************************************)
EXTENDS Integers, Sequences, FiniteSets, TLC

VARIABLES
    lego_catalog,   \* collection "lego_catalog": document id -> fields
    prices,         \* collection "prices":       document id -> fields
    deals,          \* collection "deals":        document id -> fields
    now,            \* the clock (Date.now(), Timestamp.now()), in ms
    inv,            \* per function instance: the running handler's kind, position and locals
    started         \* the number of invocations triggered so far

vars == <<lego_catalog, prices, deals, now, inv, started>>

----------------------------------------------------------------------------
(* Bounds of the model *)

MaxInv == 2          \* function instances, each running one invocation at a time
MaxRuns == 2         \* invocations triggered in one behaviour
MaxTicks == 2        \* clock advances of TickMs in one behaviour
MaxRetailers == 3    \* retailers iterated in the bounded price-loop specs

Inv == 1..MaxInv

----------------------------------------------------------------------------
(* Program constants *)

maxPages == 10
batchSize == 450
HorizonMs == 24 * 60 * 60 * 1000
TickMs == HorizonMs
MinPieces == 20
MinifigPieces == 50
DealThreshold == 10
CatalogLimit == 500
ScheduledSlice == 100
ManualSlice == 50
SampleLimit == 5

retailers ==
    << "lego", "amazon", "walmart", "target", "best_buy",
       "kohls", "meijer", "fred_meyer", "gamestop",
       "entertainment_earth", "shop_disney", "toys_r_us",
       "barnes_noble", "sams_club", "costco", "walgreens" >>

Kinds == {"updateLegoCatalog", "updatePrices", "manualCatalogUpdate", "manualPriceUpdate"}
CatalogKinds == {"updateLegoCatalog", "manualCatalogUpdate"}
PriceKinds == {"updatePrices", "manualPriceUpdate"}
ScheduledKinds == {"updateLegoCatalog", "updatePrices"}

----------------------------------------------------------------------------
(* Arithmetic *)

\* Math.round(num / den) for num >= 0, den > 0: to the nearest integer, halves up.
Round(num, den) == (2 * num + den) \div (2 * den)

Min(a, b) == IF a <= b THEN a ELSE b

\* Array.prototype.slice(from, to) on a 0-based array held as a 1-based sequence.
Slice(s, from, to) == SubSeq(s, from + 1, Min(to, Len(s)))

SeqToSet(s) == {s[n] : n \in 1..Len(s)}

----------------------------------------------------------------------------
(* Firestore documents *)

\* (mutant) set(data) without merge: the document is replaced by data
MergeReplaces(old, data) == data

\* set(data, {merge: true}) on an existing document: the fields of data
\* overwrite, the other stored fields stay.
Merge(old, data) ==
    [f \in DOMAIN old \cup DOMAIN data |-> IF f \in DOMAIN data THEN data[f] ELSE old[f]]

\* (mutant) the write drops every other document of the collection
UpsertAlone(coll, id, data) == [k \in {id} |-> data]

\* doc(id).set(data, {merge: true}) on a collection.
Upsert(coll, id, data) ==
    [k \in DOMAIN coll \cup {id} |->
        IF k = id
        THEN IF id \in DOMAIN coll THEN Merge(coll[id], data) ELSE data
        ELSE coll[k]]

\* (mutant) a delete applies only while the document is still past the horizon
DeleteIfStillExpired(coll, ids) ==
    [k \in DOMAIN coll \ {id \in ids \cap DOMAIN coll :
                              coll[id].lastUpdated < now - HorizonMs} |-> coll[k]]

\* (mutant) the batch of deletes is never applied
DeleteNone(coll, ids) == coll

\* batch.delete(ref) of every id of ids, committed.
DeleteAll(coll, ids) == [k \in DOMAIN coll \ ids |-> coll[k]]

EmptyColl == [k \in {} |-> {}]

\* (mutant) the document id puts the retailer first
DocIdRetailerFirst(setNumber, retailer) == retailer \o "_" \o setNumber

\* (mutant) the document id leaves the retailer out
DocIdWithoutRetailer(setNumber, retailer) == setNumber \o "_"

\* `${setNumber}_${retailer}`
DocId(setNumber, retailer) == setNumber \o "_" \o retailer

----------------------------------------------------------------------------
(* CatalogFetcher: fetchFromRebrickable *)

\* A raw entry of the upstream "results" array.  set_img_url = "" stands for a
\* missing (null or empty) image URL, which `!set.set_img_url` treats alike.
Raw(num, name, parts, img) ==
    [set_num |-> num, name |-> name, num_parts |-> parts, set_img_url |-> img]

\* name.toLowerCase().includes("minifig"), over the names the model serves
MinifigNames == {"Minifig Pack"}
IsMinifigName(name) == name \in MinifigNames

\* (mutant) only the image filter is applied
SkippedOnlyNoImage(raw) == raw.set_img_url = ""

\* the two `continue` filters of the result loop
Skipped(raw) ==
    \/ raw.set_img_url = ""
    \/ raw.num_parts < MinPieces
    \/ (raw.num_parts < MinifigPieces /\ IsMinifigName(raw.name))

\* Math.round(set.num_parts * 0.11), in whole currency units
EstimatedPrice(parts) == Round(parts * 11, 100)

\* price: estimatedPrice > 0 ? estimatedPrice : 20, held in cents
PriceOf(parts) ==
    IF EstimatedPrice(parts) > 0 THEN 100 * EstimatedPrice(parts) ELSE 100 * 20

\* the object pushed onto `sets`
Normalize(raw) ==
    [setNumber |-> raw.set_num,
     name |-> raw.name,
     price |-> PriceOf(raw.num_parts),
     imageUrl |-> raw.set_img_url,
     pieces |-> raw.num_parts,
     availability |-> "available"]

\* for (const set of results) { ... sets.push(...) }
PushResults(sets, results) ==
    LET kept == SelectSeq(results, LAMBDA raw : ~Skipped(raw))
    IN  sets \o [n \in 1..Len(kept) |-> Normalize(kept[n])]

\* (mutant) the loop test lets one page too many through
LoopContinuesOneMore(page) == page <= maxPages + 1

\* while (page <= maxPages)
LoopContinues(page) == page <= maxPages

\* What one page request can come back as: a transport error (or a body that
\* is no JSON), a non-success status, or a body with results and a next link.
Responses(Results) ==
    {[kind |-> "throw"], [kind |-> "status"]}
    \cup {[kind |-> "ok", results |-> r, next |-> n] : r \in Results, n \in BOOLEAN}

----------------------------------------------------------------------------
(* The locals of one invocation *)

NoPrice == [setNumber |-> ""]

InitLocal(kind) ==
    [kind |-> kind,
     id |-> 0,                 \* which invocation this is, in order of triggering
     pc |-> "idle",
     status |-> "idle",        \* idle, running, completed, failed
     outcome |-> "none",       \* what the trigger is given: returned, rethrown, http200, http500
     threw |-> FALSE,          \* the handler's catch block was entered
     page |-> 1,
     sets |-> << >>,
     requests |-> << >>,       \* the page numbers requested from upstream, in order
     fetchLog |-> << >>,       \* per request, how its iteration ended
     offset |-> 0,             \* the chunk loops' i
     batches |-> << >>,        \* the chunks of sets committed by batch.commit(), in order
     deleted |-> << >>,        \* the chunks of deletes committed by batch.commit(), in order
     retailers |-> << >>,      \* the handler's `retailers` array
     si |-> 0, ri |-> 0,       \* the price loop's position: item, retailer
     priceData |-> NoPrice,
     dealsFound |-> 0,
     sampleDeals |-> << >>,
     cutoff |-> 0,
     oldDeals |-> << >>]

\* The handler returns normally: the scheduled function resolves, the HTTP
\* handler answers res.json(...) (status 200).
Completed(L) ==
    [L EXCEPT !.pc = "done", !.status = "completed",
              !.outcome = IF L.kind \in ScheduledKinds THEN "returned" ELSE "http200"]

\* (mutant) the catch block logs and swallows the error
CaughtAndSwallowed(L) ==
    [L EXCEPT !.pc = "done", !.status = "completed", !.threw = TRUE,
              !.outcome = IF L.kind \in ScheduledKinds THEN "returned" ELSE "http200"]

\* The handler's catch block: log; then `throw error` (scheduled) or
\* res.status(500) (HTTP).
Caught(L) ==
    [L EXCEPT !.pc = "done", !.status = "failed", !.threw = TRUE,
              !.outcome = IF L.kind \in ScheduledKinds THEN "rethrown" ELSE "http500"]

\* manualCatalogUpdate: if (sets.length === 0) { res.status(500)...; return; }
NoSetsFetched(L) ==
    [L EXCEPT !.pc = "done", !.status = "failed", !.outcome = "http500"]

----------------------------------------------------------------------------
(* PriceObservationGenerator and DealEvaluator *)

\* The Math.random() draws of one generateSimulatedPrice call, as inputs:
\* first  = (Math.random() < 0.7),  d1 = Math.floor(Math.random() * 31) + 10,
\* second = (Math.random() < 0.1),  d2 = Math.floor(Math.random() * 21) + 40,
\* stock  = (Math.random() > 0.15).
Draw(first, d1, second, d2, stock) ==
    [first |-> first, d1 |-> d1, second |-> second, d2 |-> d2, stock |-> stock]

\* (mutant) the retailer "lego" is discounted like the others
DiscountPercentAnyRetailer(retailer, draw) ==
    IF draw.second THEN draw.d2
    ELSE IF draw.first THEN draw.d1
    ELSE 0

\* (mutant) the test for "lego" guards the first discount only
DiscountPercentGuardsFirstOnly(retailer, draw) ==
    IF draw.second THEN draw.d2
    ELSE IF retailer = "lego" THEN 0
    ELSE IF draw.first THEN draw.d1
    ELSE 0

DiscountPercent(retailer, draw) ==
    IF retailer = "lego" THEN 0
    ELSE IF draw.second THEN draw.d2
    ELSE IF draw.first THEN draw.d1
    ELSE 0

\* (mutant) the discounted price is rounded to whole units
CurrentPriceWholeUnits(originalPrice, discountPercent) ==
    100 * Round(originalPrice * (100 - discountPercent), 100 * 100)

\* Math.round(originalPrice * (1 - discountPercent / 100) * 100) / 100, in cents
CurrentPrice(originalPrice, discountPercent) ==
    Round(originalPrice * (100 - discountPercent), 100)

\* (mutant) the stock flag is the draw alone
GeneratePriceStockByDraw(set, retailer, draw, time) ==
    [setNumber |-> set.setNumber,
     setName |-> set.name,
     retailer |-> retailer,
     currentPrice |-> CurrentPrice(set.price, DiscountPercent(retailer, draw)),
     originalPrice |-> set.price,
     inStock |-> draw.stock,
     lastUpdated |-> time,
     imageUrl |-> set.imageUrl,
     pieces |-> set.pieces]

GeneratePrice(set, retailer, draw, time) ==
    [setNumber |-> set.setNumber,
     setName |-> set.name,
     retailer |-> retailer,
     currentPrice |-> CurrentPrice(set.price, DiscountPercent(retailer, draw)),
     originalPrice |-> set.price,
     inStock |-> (set.availability = "available" /\ draw.stock),
     lastUpdated |-> time,
     imageUrl |-> set.imageUrl,
     pieces |-> set.pieces]

\* Math.round(((originalPrice - currentPrice) / originalPrice) * 100)
PercentOff(p) == Round((p.originalPrice - p.currentPrice) * 100, p.originalPrice)

\* (mutant) the savings are taken from the wrong price
SavingsOfCurrentPrice(p) == Round(p.currentPrice, 1)

\* Math.round((originalPrice - currentPrice) * 100) / 100, in cents
Savings(p) == Round(p.originalPrice - p.currentPrice, 1)

\* (mutant) the deal test forgets the stock flag
QualifiesIgnoringStock(p) == PercentOff(p) >= DealThreshold

\* if (percentOff >= 10 && priceData.inStock)
Qualifies(p) == PercentOff(p) >= DealThreshold /\ p.inStock

\* { ...priceData, percentOff, savings }
DealOf(p) ==
    [f \in DOMAIN p \cup {"percentOff", "savings"} |->
        IF f = "percentOff" THEN PercentOff(p)
        ELSE IF f = "savings" THEN Savings(p)
        ELSE p[f]]

----------------------------------------------------------------------------
(* Queries *)

\* The set numbers of the model, in document-id order.
SetNum(n) == ToString(10000 + n) \o "-1"

\* The place of a set number and of a retailer in document-id order.
SetIndex == [id \in {SetNum(n) : n \in 1..(maxPages * 100)} |->
                CHOOSE n \in 1..(maxPages * 100) : SetNum(n) = id]

RetailerIndex == [r \in SeqToSet(retailers) |-> CHOOSE n \in 1..Len(retailers) : retailers[n] = r]

\* The document ids of rank's domain, in the order of their ranks.
Sorted(rank) ==
    LET ranked == {<<rank[k], k>> : k \in DOMAIN rank}
        placed == {<<Cardinality({q \in ranked : q[1] < p[1]}) + 1, p[2]>> : p \in ranked}
    IN  [m \in 1..Cardinality(ranked) |-> (CHOOSE p \in placed : p[1] = m)[2]]

\* getLegoSetsCatalog: where availability in [available, retiring_soon],
\* limit 500, in document-id order
GetLegoSetsCatalog(coll) ==
    LET ids == Sorted([id \in {k \in DOMAIN coll :
                                  coll[k].availability \in {"available", "retiring_soon"}} |->
                          SetIndex[id]])
    IN  [n \in 1..Min(Len(ids), CatalogLimit) |-> coll[ids[n]]]

\* (mutant) the query forgets the horizon: every deal older than now
ExpiredBeforeNow(coll, cutoff) ==
    {k \in DOMAIN coll : coll[k].lastUpdated < cutoff + HorizonMs}

\* (mutant) the query looks a second horizon further back
ExpiredTwoHorizons(coll, cutoff) ==
    {k \in DOMAIN coll : coll[k].lastUpdated < cutoff - HorizonMs}

\* (mutant) the query also finds the deals exactly as old as the horizon
ExpiredInclusive(coll, cutoff) == {k \in DOMAIN coll : coll[k].lastUpdated <= cutoff}

\* where("lastUpdated", "<", cutoff): the ids of the documents found
Expired(coll, cutoff) == {k \in DOMAIN coll : coll[k].lastUpdated < cutoff}

\* oldDeals.docs, listed here in document-id order
OldDeals(coll, cutoff) ==
    Sorted([k \in Expired(coll, cutoff) |->
              SetIndex[coll[k].setNumber] * Len(retailers) + RetailerIndex[coll[k].retailer]])

----------------------------------------------------------------------------
(* Control flow of the handlers between awaited calls *)

\* (mutant) the loop runs over the whole list
LoopSetsWhole(L) == L.sets

\* sets.slice(0, 100) on the scheduled path, sets.slice(0, 50) on demand
LoopSets(L) ==
    Slice(L.sets, 0, IF L.kind = "updatePrices" THEN ScheduledSlice ELSE ManualSlice)

\* after the retailer iteration of item si, retailer ri
Advance(L) ==
    IF L.ri < Len(L.retailers) THEN [L EXCEPT !.pc = "price", !.ri = L.ri + 1]
    ELSE IF L.si < Len(LoopSets(L)) THEN [L EXCEPT !.pc = "price", !.si = L.si + 1, !.ri = 1]
    ELSE [L EXCEPT !.pc = "cleanQuery"]

\* entering the nested for loops
EnterLoop(L) ==
    IF Len(LoopSets(L)) = 0 \/ Len(L.retailers) = 0
    THEN [L EXCEPT !.pc = "cleanQuery"]
    ELSE [L EXCEPT !.pc = "price", !.si = 1, !.ri = 1]

\* (mutant) the handler saves page by page: after the save it requests the
\* next page
AfterSaveNextPage(L) ==
    IF LoopContinues(L.page + 1)
    THEN [L EXCEPT !.pc = "fetch", !.page = L.page + 1]
    ELSE Completed(L)

\* saveLegoSetsCatalog has returned
AfterSave(L) == IF L.kind \in CatalogKinds THEN Completed(L) ELSE EnterLoop(L)

\* (mutant) a price job goes on to its loop without saving what it fetched
EnterSaveOnlyCatalogJobs(L) ==
    IF 0 < Len(L.sets) /\ L.kind \in CatalogKinds
    THEN [L EXCEPT !.pc = "save", !.offset = 0]
    ELSE AfterSave(L)

\* saveLegoSetsCatalog(sets) is called: for (let i = 0; i < sets.length; ...)
EnterSave(L) ==
    IF 0 < Len(L.sets) THEN [L EXCEPT !.pc = "save", !.offset = 0] ELSE AfterSave(L)

\* (mutant) the on-demand catalog job does not test sets.length
AfterFetchSavesWhatever(L) == EnterSave(L)

\* fetchFromRebrickable has returned L.sets
AfterFetch(L) ==
    IF L.kind = "manualCatalogUpdate" /\ Len(L.sets) = 0
    THEN NoSetsFetched(L)
    ELSE EnterSave(L)

\* fetchFromRebrickable is called
EnterFetch(L) ==
    LET F == [L EXCEPT !.page = 1, !.sets = << >>]
    IN  IF LoopContinues(1) THEN [F EXCEPT !.pc = "fetch"] ELSE AfterFetch(F)

\* one iteration of the while loop, given the response to its request; the
\* log tag is the logger line that ends the iteration
Logged(L, tag) ==
    [L EXCEPT !.requests = Append(@, L.page), !.fetchLog = Append(@, tag)]

\* (mutant) a non-success status skips the page instead of ending pagination
PageStepSkipsBadStatus(L, resp) ==
    IF resp.kind = "throw" THEN AfterFetch(Logged(L, "failed"))
    ELSE IF resp.kind = "status"
    THEN LET Q == [Logged(L, "api_error") EXCEPT !.page = L.page + 1]
         IN  IF LoopContinues(Q.page) THEN Q ELSE AfterFetch(Q)
    ELSE IF Len(resp.results) = 0 THEN AfterFetch(Logged(L, "no_results"))
    ELSE LET P == [L EXCEPT !.sets = PushResults(@, resp.results)]
         IN  IF ~resp.next THEN AfterFetch(Logged(P, "last_page"))
             ELSE LET Q == [Logged(P, "fetched") EXCEPT !.page = P.page + 1]
                  IN  IF LoopContinues(Q.page) THEN Q ELSE AfterFetch(Q)

\* (mutant) a page whose request threw is requested once more
PageStepRetriesOnce(L, resp) ==
    IF resp.kind = "throw"
    THEN IF L.fetchLog # << >> /\ L.fetchLog[Len(L.fetchLog)] = "failed"
         THEN AfterFetch(Logged(L, "failed"))
         ELSE Logged(L, "failed")
    ELSE IF resp.kind = "status" THEN AfterFetch(Logged(L, "api_error"))
    ELSE IF Len(resp.results) = 0 THEN AfterFetch(Logged(L, "no_results"))
    ELSE LET P == [L EXCEPT !.sets = PushResults(@, resp.results)]
         IN  IF ~resp.next THEN AfterFetch(Logged(P, "last_page"))
             ELSE LET Q == [Logged(P, "fetched") EXCEPT !.page = P.page + 1]
                  IN  IF LoopContinues(Q.page) THEN Q ELSE AfterFetch(Q)

PageStep(L, resp) ==
    IF resp.kind = "throw" THEN AfterFetch(Logged(L, "failed"))
    ELSE IF resp.kind = "status" THEN AfterFetch(Logged(L, "api_error"))
    ELSE IF Len(resp.results) = 0 THEN AfterFetch(Logged(L, "no_results"))
    ELSE LET P == [L EXCEPT !.sets = PushResults(@, resp.results)]
         IN  IF ~resp.next THEN AfterFetch(Logged(P, "last_page"))
             ELSE LET Q == [Logged(P, "fetched") EXCEPT !.page = P.page + 1]
                  IN  IF LoopContinues(Q.page) THEN Q ELSE AfterFetch(Q)

\* the batch of one chunk: set(docRef, {...set, lastUpdated: now}, {merge: true})
\* for each set of the chunk in order, committed as one write
RECURSIVE MergeAll(_, _)
MergeAll(doc, writes) ==
    IF writes = << >> THEN doc ELSE MergeAll(Merge(doc, Head(writes)), Tail(writes))

EmptyDoc == [f \in {} |-> {}]

Stamped(set, time) ==
    [f \in DOMAIN set \cup {"lastUpdated"} |-> IF f = "lastUpdated" THEN time ELSE set[f]]

CommitSets(coll, chunk, time) ==
    LET ids == {chunk[n].setNumber : n \in 1..Len(chunk)}
        at(id) == SelectSeq([n \in 1..Len(chunk) |-> n], LAMBDA n : chunk[n].setNumber = id)
        writes(id) == [m \in 1..Len(at(id)) |-> Stamped(chunk[at(id)[m]], time)]
    IN  [k \in DOMAIN coll \cup ids |->
            IF k \in ids
            THEN MergeAll(IF k \in DOMAIN coll THEN coll[k] ELSE EmptyDoc, writes(k))
            ELSE coll[k]]

\* (mutant) the slice takes one element too many
ChunkOneTooMany(s, offset) == Slice(s, offset, offset + batchSize + 1)

\* sets.slice(i, i + batchSize)
Chunk(s, offset) == Slice(s, offset, offset + batchSize)

----------------------------------------------------------------------------
(* Actions: one per awaited call of a handler *)

Set(i, L) == inv' = [inv EXCEPT ![i] = L]

\* A trigger fires handler k on an instance that is running nothing.
\* updateLegoCatalog first awaits fetchThemes(), which changes nothing and
\* swallows its own errors.
Start(i, K, R) ==
    /\ inv[i].status # "running"
    /\ started < MaxRuns
    /\ started' = started + 1
    /\ \E k \in K :
         LET L == [InitLocal(k) EXCEPT !.id = started + 1, !.status = "running",
                                       !.retailers = IF k \in PriceKinds THEN R ELSE << >>]
         IN  Set(i, IF k \in CatalogKinds THEN EnterFetch(L) ELSE [L EXCEPT !.pc = "read"])
    /\ UNCHANGED <<lego_catalog, prices, deals, now>>

\* The trigger fires again and again (schedule: "every 60 minutes"): the
\* count of invocations stays at MaxRuns once it has reached it.
StartAgain(i, K, R) ==
    /\ inv[i].status # "running"
    /\ started' = Min(started + 1, MaxRuns)
    /\ \E k \in K :
         LET L == [InitLocal(k) EXCEPT !.id = Min(started + 1, MaxRuns),
                                       !.status = "running",
                                       !.retailers = IF k \in PriceKinds THEN R ELSE << >>]
         IN  Set(i, IF k \in CatalogKinds THEN EnterFetch(L) ELSE [L EXCEPT !.pc = "read"])
    /\ UNCHANGED <<lego_catalog, prices, deals, now>>

\* The same, on an instance that has run nothing yet.
StartOnce(i, K, R) ==
    /\ inv[i].status = "idle"
    /\ Start(i, K, R)

\* let sets = await getLegoSetsCatalog(); if (sets.length === 0) ...
ReadCatalog(i) ==
    /\ inv[i].pc = "read"
    /\ LET L == [inv[i] EXCEPT !.sets = GetLegoSetsCatalog(lego_catalog)]
       IN  Set(i, IF Len(L.sets) = 0 THEN EnterFetch(L) ELSE EnterLoop(L))
    /\ UNCHANGED <<lego_catalog, prices, deals, now, started>>

\* One page request of fetchFromRebrickable and the handling of its response.
FetchPage(i, Resps) ==
    /\ inv[i].pc = "fetch"
    /\ \E resp \in Resps : Set(i, PageStep(inv[i], resp))
    /\ UNCHANGED <<lego_catalog, prices, deals, now, started>>

\* One chunk of saveLegoSetsCatalog: await batch.commit().
SaveChunk(i) ==
    /\ inv[i].pc = "save"
    /\ LET L == inv[i]
           chunk == Chunk(L.sets, L.offset)
           M == [L EXCEPT !.offset = L.offset + batchSize,
                          !.batches = Append(@, [n \in 1..Len(chunk) |-> chunk[n].setNumber])]
       IN  /\ lego_catalog' = CommitSets(lego_catalog, chunk, now)
           /\ Set(i, IF M.offset < Len(M.sets) THEN M ELSE AfterSave(M))
    /\ UNCHANGED <<prices, deals, now, started>>

\* const priceData = generateSimulatedPrice(set, retailer)
Generate(i, Draws) ==
    /\ inv[i].pc = "price"
    /\ \E draw \in Draws :
         LET L == inv[i]
         IN  Set(i, [L EXCEPT !.pc = "savePrice",
                              !.priceData = GeneratePrice(LoopSets(L)[L.si],
                                                L.retailers[L.ri], draw, now)])
    /\ UNCHANGED <<lego_catalog, prices, deals, now, started>>

\* (mutant) an observation that qualifies is stored as a deal only
SavePriceUnlessDeal(i) ==
    /\ inv[i].pc = "savePrice"
    /\ LET L == inv[i]
           p == L.priceData
       IN  /\ prices' = IF Qualifies(p) THEN prices
                        ELSE Upsert(prices, DocId(p.setNumber, p.retailer), p)
           /\ Set(i, IF Qualifies(p) THEN [L EXCEPT !.pc = "saveDeal"] ELSE Advance(L))
    /\ UNCHANGED <<lego_catalog, deals, now, started>>

\* await savePriceToFirestore(priceData); then the deal test
SavePrice(i) ==
    /\ inv[i].pc = "savePrice"
    /\ LET L == inv[i]
           p == L.priceData
       IN  /\ prices' = Upsert(prices, DocId(p.setNumber, p.retailer), p)
           /\ Set(i, IF Qualifies(p) THEN [L EXCEPT !.pc = "saveDeal"] ELSE Advance(L))
    /\ UNCHANGED <<lego_catalog, deals, now, started>>

\* await saveDealToFirestore(deal); dealsFound++; sampleDeals.push(deal)
SaveDeal(i) ==
    /\ inv[i].pc = "saveDeal"
    /\ LET L == inv[i]
           deal == DealOf(L.priceData)
           M == [L EXCEPT !.dealsFound = L.dealsFound + 1,
                          !.sampleDeals =
                              IF L.kind = "manualPriceUpdate" /\ Len(@) < SampleLimit
                              THEN Append(@, deal) ELSE @]
       IN  /\ deals' = Upsert(deals, DocId(deal.setNumber, deal.retailer), deal)
           /\ Set(i, Advance(M))
    /\ UNCHANGED <<lego_catalog, prices, now, started>>

\* The nested loops as one step, for a job none of whose awaits fails and
\* between whose awaits no other invocation takes a step: the observation of
\* every pair (draws[s][r] being the draws for item s at retailer r) is
\* upserted, those that qualify are upserted as deals and counted, and the
\* first of them, in the order of the loops, fill sampleDeals up to its
\* limit.  The step is taken when the pairs have distinct keys, so that each
\* upsert is to a document of its own.
PriceLoop(i, draws) ==
    /\ inv[i].pc = "price"
    /\ inv[i].si = 1
    /\ inv[i].ri = 1
    /\ LET L == inv[i]
           S == Len(LoopSets(L))
           R == Len(L.retailers)
           Obs(n) == GeneratePrice(LoopSets(L)[((n - 1) \div R) + 1],
                                   L.retailers[((n - 1) % R) + 1],
                                   draws[((n - 1) \div R) + 1][((n - 1) % R) + 1], now)
       IN  \E written \in {{<<DocId(Obs(n).setNumber, Obs(n).retailer), Obs(n)>> :
                               n \in 1..(S * R)}} :
           \E found \in {SelectSeq([n \in 1..(S * R) |-> Obs(n)], LAMBDA p : Qualifies(p))} :
           \E keys \in {{w[1] : w \in written}} :
           \E dealKeys \in {{DocId(found[n].setNumber, found[n].retailer) :
                                n \in 1..Len(found)}} :
               /\ Cardinality(keys) = S * R
               /\ prices' = [k \in DOMAIN prices \cup keys |->
                                IF k \in keys
                                THEN Upsert(prices, k, (CHOOSE w \in written : w[1] = k)[2])[k]
                                ELSE prices[k]]
               /\ deals' = [k \in DOMAIN deals \cup dealKeys |->
                                IF k \in dealKeys
                                THEN Upsert(deals, k,
                                            DealOf((CHOOSE w \in written : w[1] = k)[2]))[k]
                                ELSE deals[k]]
               /\ Set(i, [L EXCEPT !.pc = "cleanQuery",
                                   !.si = S,
                                   !.ri = R,
                                   !.priceData = Obs(S * R),
                                   !.dealsFound = L.dealsFound + Len(found),
                                   !.sampleDeals =
                                       IF L.kind = "manualPriceUpdate"
                                       THEN @ \o [n \in 1..Min(Len(found), SampleLimit - Len(@)) |->
                                                     DealOf(found[n])]
                                       ELSE @])
    /\ UNCHANGED <<lego_catalog, now, started>>

\* cleanOldDeals: the cutoff and the query; return if nothing is old
CleanQuery(i) ==
    /\ inv[i].pc = "cleanQuery"
    /\ LET L == inv[i]
           cutoff == now - HorizonMs
           old == OldDeals(deals, cutoff)
           M == [L EXCEPT !.cutoff = cutoff, !.oldDeals = old, !.offset = 0]
       IN  Set(i, IF Len(old) = 0 THEN Completed(M) ELSE [M EXCEPT !.pc = "cleanCommit"])
    /\ UNCHANGED <<lego_catalog, prices, deals, now, started>>

\* cleanOldDeals: one chunk of deletes, await batch.commit()
CleanCommit(i) ==
    /\ inv[i].pc = "cleanCommit"
    /\ LET L == inv[i]
           chunk == Chunk(L.oldDeals, L.offset)
           M == [L EXCEPT !.offset = L.offset + batchSize, !.deleted = Append(@, chunk)]
       IN  /\ deals' = DeleteAll(deals, SeqToSet(chunk))
           /\ Set(i, IF M.offset < Len(M.oldDeals) THEN M ELSE Completed(M))
    /\ UNCHANGED <<lego_catalog, prices, now, started>>

\* sampleDeals.map(d => ({ setNumber, setName, retailer, originalPrice,
\* currentPrice, percentOff, savings }))
Sample(d) ==
    [setNumber |-> d.setNumber, setName |-> d.setName, retailer |-> d.retailer,
     originalPrice |-> d.originalPrice, currentPrice |-> d.currentPrice,
     percentOff |-> d.percentOff, savings |-> d.savings]

\* (mutant) catalogSize is the number of items processed
ResponseCountsProcessed(L) ==
    [success |-> TRUE,
     catalogSize |-> Min(Len(L.sets), ManualSlice),
     dealsFound |-> L.dealsFound,
     sampleDeals |-> [n \in 1..Len(L.sampleDeals) |-> Sample(L.sampleDeals[n])]]

\* manualPriceUpdate: the body of res.json({ success: true, ... })
Response(L) ==
    [success |-> TRUE,
     catalogSize |-> Len(L.sets),
     dealsFound |-> L.dealsFound,
     sampleDeals |-> [n \in 1..Len(L.sampleDeals) |-> Sample(L.sampleDeals[n])]]

\* The awaited store call rejects: the handler's catch block runs.
StorePcs == {"read", "save", "savePrice", "saveDeal", "cleanQuery", "cleanCommit"}

\* (mutant) the catch block undoes the writes of the invocation
ThrowRollsBack(i) ==
    /\ inv[i].pc \in StorePcs
    /\ Set(i, Caught(inv[i]))
    /\ prices' = [k \in {j \in DOMAIN prices : prices[j].lastUpdated < now} |-> prices[k]]
    /\ deals' = [k \in {j \in DOMAIN deals : deals[j].lastUpdated < now} |-> deals[k]]
    /\ UNCHANGED <<lego_catalog, now, started>>

Throw(i) ==
    /\ inv[i].pc \in StorePcs
    /\ Set(i, Caught(inv[i]))
    /\ UNCHANGED <<lego_catalog, prices, deals, now, started>>

\* The platform ends an invocation that exceeds timeoutSeconds: it takes no
\* further step, its catch block does not run, and what it has committed
\* stays.
Truncated(L) == [L EXCEPT !.pc = "done", !.status = "failed", !.outcome = "timeout"]

TimeOut(i) ==
    /\ inv[i].status = "running"
    /\ Set(i, Truncated(inv[i]))
    /\ UNCHANGED <<lego_catalog, prices, deals, now, started>>

\* Time passes while invocation i runs (its awaits, and the 50 ms
\* setTimeout after each pair), by ElapseMs at a time; the platform lets
\* the invocation, triggered at time `start`, live for timeoutSeconds.
TimeoutMs == 300 * 1000

ElapseMs == TimeoutMs \div 3

Elapse(i, start) ==
    /\ inv[i].status = "running"
    /\ now + ElapseMs <= start + TimeoutMs
    /\ now' = now + ElapseMs
    /\ UNCHANGED <<lego_catalog, prices, deals, inv, started>>

\* healthCheck: the locals of the handler
HealthLocal ==
    [f \in DOMAIN InitLocal("healthCheck") \cup {"catalogSize", "dealsCount"} |->
        IF f \in {"catalogSize", "dealsCount"} THEN 0 ELSE InitLocal("healthCheck")[f]]

\* (mutant) the count clears the collection
CountedAndCleared(coll) == EmptyColl

\* db.collection(...).count().get(): what the aggregate query leaves of the
\* collection it counts
Counted(coll) == coll

\* An HTTP request fires healthCheck on an instance that is running nothing.
StartHealth(i) ==
    /\ inv[i].status # "running"
    /\ started < MaxRuns
    /\ started' = started + 1
    /\ Set(i, [HealthLocal EXCEPT !.id = started + 1, !.status = "running",
                                  !.pc = "countCatalog"])
    /\ UNCHANGED <<lego_catalog, prices, deals, now>>

\* const catalogSnapshot = await db.collection("lego_catalog").count().get()
CountCatalog(i) ==
    /\ inv[i].pc = "countCatalog"
    /\ lego_catalog' = Counted(lego_catalog)
    /\ Set(i, [inv[i] EXCEPT !.catalogSize = Cardinality(DOMAIN lego_catalog),
                             !.pc = "countDeals"])
    /\ UNCHANGED <<prices, deals, now, started>>

\* const dealsSnapshot = await db.collection("deals").count().get(); res.json(...)
CountDeals(i) ==
    /\ inv[i].pc = "countDeals"
    /\ deals' = Counted(deals)
    /\ Set(i, Completed([inv[i] EXCEPT !.dealsCount = Cardinality(DOMAIN deals)]))
    /\ UNCHANGED <<lego_catalog, prices, now, started>>

\* A count rejects: catch (error) { res.status(500).json(...) }
HealthFail(i) ==
    /\ inv[i].pc \in {"countCatalog", "countDeals"}
    /\ Set(i, Caught(inv[i]))
    /\ UNCHANGED <<lego_catalog, prices, deals, now, started>>

\* Time passes between invocations: of the steps modelled here the clock
\* takes steps of the retention horizon, which no invocation outlasts
\* (timeoutSeconds: 300 and 540).
Tick ==
    /\ \A i \in Inv : inv[i].status # "running"
    /\ now < MaxTicks * TickMs
    /\ now' = now + TickMs
    /\ UNCHANGED <<lego_catalog, prices, deals, inv, started>>

----------------------------------------------------------------------------
(* What the upstream serves *)

RawPages ==
    { << >>,
      << Raw(SetNum(1), "Millennium Falcon", 7541, "img1"),
         Raw(SetNum(2), "Tiny Car", 19, "img2"),
         Raw(SetNum(3), "Minifig Pack", 30, "img3") >>,
      << Raw(SetNum(4), "Polybag", 20, "img4"),
         Raw(SetNum(5), "Gear", 300, ""),
         Raw(SetNum(6), "Fire Truck", 182, "img6") >> }

----------------------------------------------------------------------------
(* Initial state: a fresh project, no invocation started *)

Init ==
    /\ lego_catalog = EmptyColl
    /\ prices = EmptyColl
    /\ deals = EmptyColl
    /\ now = 0
    /\ inv = [i \in Inv |-> InitLocal("none")]
    /\ started = 0

(* SpecFetch: one catalog job (scheduled or on demand) against an upstream  *)
(* that may answer each page request in any way.                            *)
NextFetch ==
    \/ StartOnce(1, CatalogKinds, << >>)
    \/ FetchPage(1, Responses(RawPages))
    \/ SaveChunk(1)
    \/ Throw(1)

SpecFetch == Init /\ [][NextFetch]_vars

(* SpecBulk: one job of any kind.  The upstream serves full pages of        *)
(* distinct valid entries (50 or 100 a page), so that a catalog job fetches *)
(* up to 1000 items and saves them in several chunks, any of whose commits  *)
(* may fail.  The project is 48 hours old: the catalog holds one item, and  *)
(* prices and deals hold what price jobs wrote at time 0 for items that     *)
(* have since been removed from the catalog by hand, so that the sweep of a *)
(* price job finds more old deals than one chunk holds.                     *)
BulkPageSizes == {50, 100}

BulkItem(n) == Raw(SetNum(n), "Set", 100 + n, "img")

BulkPages(L) ==
    { [n \in 1..z |-> BulkItem(Len(L.sets) + n)] : z \in BulkPageSizes }

BulkDraws == {Draw(FALSE, 10, FALSE, 40, TRUE), Draw(FALSE, 10, TRUE, 50, TRUE)}

StaleCounts == {0, 451}

\* the m-th observation written at time 0: items in order, each at every
\* retailer but "lego", at 50% off and in stock
StaleObservation(m) ==
    GeneratePrice(Normalize(BulkItem(((m - 1) \div (Len(retailers) - 1)) + 1)),
                  retailers[((m - 1) % (Len(retailers) - 1)) + 2],
                  Draw(FALSE, 10, TRUE, 50, TRUE), 0)

StaleIds(n) == {DocId(StaleObservation(m).setNumber, StaleObservation(m).retailer) : m \in 1..n}

StaleAt(n, id) ==
    StaleObservation(CHOOSE m \in 1..n :
        DocId(StaleObservation(m).setNumber, StaleObservation(m).retailer) = id)

InitBulk ==
    /\ lego_catalog = CommitSets(EmptyColl, << Normalize(BulkItem(1)) >>, 0)
    /\ \E n \in StaleCounts :
          /\ prices = [id \in StaleIds(n) |-> StaleAt(n, id)]
          /\ deals = [id \in StaleIds(n) |-> DealOf(StaleAt(n, id))]
    /\ now = 2 * TickMs
    /\ inv = [i \in Inv |-> InitLocal("none")]
    /\ started = 0

NextBulk ==
    \/ StartOnce(1, Kinds, SubSeq(retailers, 1, MaxRetailers))
    \/ ReadCatalog(1)
    \/ FetchPage(1, Responses(BulkPages(inv[1])))
    \/ SaveChunk(1)
    \/ Generate(1, BulkDraws)
    \/ SavePrice(1)
    \/ SaveDeal(1)
    \/ CleanQuery(1)
    \/ CleanCommit(1)
    \/ Throw(1)

SpecBulk == InitBulk /\ [][NextBulk]_vars

(* SpecSeq and SpecJobs: jobs of all four kinds on a fresh project, one    *)
(* after the other on one instance (SpecSeq) or overlapping on several      *)
(* (SpecJobs), while time passes between them.                              *)
(* The upstream has one page of items and may fail; the price loops run     *)
(* over the first MaxRetailers retailers.                                   *)
JobPages ==
    { << >>,
      << Raw(SetNum(6), "Fire Truck", 182, "img6") >> }

JobResponses ==
    {[kind |-> "throw"], [kind |-> "status"]}
    \cup {[kind |-> "ok", results |-> r, next |-> FALSE] : r \in JobPages}

JobDraws ==
    { Draw(FALSE, 10, FALSE, 40, TRUE),     \* no discount, in stock
      Draw(TRUE, 10, FALSE, 40, TRUE),      \* 10% off, in stock
      Draw(TRUE, 10, TRUE, 50, FALSE) }     \* 50% off, out of stock

JobRetailers == SubSeq(retailers, 1, MaxRetailers)

\* of these, the answers that differ in what the job is left with
FewResponses ==
    { [kind |-> "status"],
      [kind |-> "ok", results |-> << Raw(SetNum(6), "Fire Truck", 182, "img6") >>,
       next |-> FALSE] }

Step(i, Resps) ==
    \/ ReadCatalog(i)
    \/ FetchPage(i, Resps)
    \/ SaveChunk(i)
    \/ Generate(i, JobDraws)
    \/ SavePrice(i)
    \/ SaveDeal(i)
    \/ CleanQuery(i)
    \/ CleanCommit(i)
    \/ Throw(i)

NextSeq ==
    \/ Start(1, Kinds, JobRetailers)
    \/ Step(1, JobResponses)
    \/ Tick

SpecSeq == Init /\ [][NextSeq]_vars

NextJobs ==
    \/ \E i \in Inv : Start(i, Kinds, JobRetailers)
    \/ \E i \in Inv : Step(i, FewResponses)
    \/ Tick

SpecJobs == Init /\ [][NextJobs]_vars

(* SpecResync: a catalog job on a project whose catalog was synced at time  *)
(* 0 and then edited by hand in the console: item 1 was renamed, marked     *)
(* retiring_soon and given a field the pipeline never writes; item 7 is no  *)
(* longer served by the upstream.  A day later the job fetches RawPages.    *)
ConsoleEdit == [name |-> "Falcon (old box)", availability |-> "retiring_soon", notes |-> "shelf 3"]

SeededCatalog ==
    LET synced == CommitSets(EmptyColl,
                     << Normalize(Raw(SetNum(1), "Millennium Falcon", 7541, "img0")),
                        Normalize(Raw(SetNum(7), "Windmill", 90, "img7")) >>, 0)
    IN  [k \in DOMAIN synced |->
            IF k = SetNum(1)
            THEN [f \in DOMAIN synced[k] \cup DOMAIN ConsoleEdit |->
                     IF f \in DOMAIN ConsoleEdit THEN ConsoleEdit[f] ELSE synced[k][f]]
            ELSE synced[k]]

InitResync ==
    /\ lego_catalog = SeededCatalog
    /\ prices = EmptyColl
    /\ deals = EmptyColl
    /\ now = TickMs
    /\ inv = [i \in Inv |-> InitLocal("none")]
    /\ started = 0

SpecResync == InitResync /\ [][NextFetch]_vars

(* SpecTwice: two price jobs, the second triggered after the first has      *)
(* ended, on a project where a price job ran 24 hours ago: the catalog      *)
(* holds one item, prices hold its observation at each of the first         *)
(* MaxRetailers retailers (10% off and in stock, but at "lego"), and deals  *)
(* hold the deals of those observations.                                    *)
AgedItem == Normalize(Raw(SetNum(6), "Fire Truck", 182, "img6"))

AgedObservation(r) == GeneratePrice(AgedItem, r, Draw(TRUE, 10, FALSE, 40, TRUE), 0)

AgedIds(R) == {DocId(AgedItem.setNumber, r) : r \in R}

AgedAt(id) ==
    AgedObservation(CHOOSE r \in SeqToSet(JobRetailers) : DocId(AgedItem.setNumber, r) = id)

AgedPrices == [id \in AgedIds(SeqToSet(JobRetailers)) |-> AgedAt(id)]

AgedDeals ==
    [id \in AgedIds({r \in SeqToSet(JobRetailers) : Qualifies(AgedObservation(r))}) |->
        DealOf(AgedAt(id))]

InitAged ==
    /\ lego_catalog = CommitSets(EmptyColl, << AgedItem >>, 0)
    /\ prices = AgedPrices
    /\ deals = AgedDeals
    /\ now = TickMs
    /\ inv = [i \in Inv |-> InitLocal("none")]
    /\ started = 0

\* the awaited calls of a price job that finds the catalog filled
PriceStep(i) ==
    \/ ReadCatalog(i)
    \/ Generate(i, JobDraws)
    \/ SavePrice(i)
    \/ SaveDeal(i)
    \/ CleanQuery(i)
    \/ CleanCommit(i)
    \/ Throw(i)

NextTwice ==
    \/ (inv[2].status = "idle" /\ StartOnce(1, PriceKinds, JobRetailers))
    \/ (inv[1].status \in {"completed", "failed"} /\ StartOnce(2, PriceKinds, JobRetailers))
    \/ PriceStep(1)
    \/ PriceStep(2)
    \/ Tick

SpecTwice == InitAged /\ [][NextTwice]_vars

(* SpecScenario: one price job, scheduled or on demand, over a catalog of   *)
(* two items A and B and all 16 retailers, with the generator's draws       *)
(* forced: the 50% branch and in stock for A, no discount for B.            *)
ScenarioA == Normalize(Raw(SetNum(1), "Millennium Falcon", 7541, "img1"))
ScenarioB == Normalize(Raw(SetNum(6), "Fire Truck", 182, "img6"))

ScenarioDraws(set) ==
    IF set.setNumber = ScenarioA.setNumber
    THEN {Draw(first, 10, TRUE, 50, TRUE) : first \in BOOLEAN}
    ELSE {Draw(FALSE, 10, FALSE, 40, TRUE)}

InitScenario ==
    /\ lego_catalog = CommitSets(EmptyColl, << ScenarioA, ScenarioB >>, 0)
    /\ prices = EmptyColl
    /\ deals = EmptyColl
    /\ now = TickMs
    /\ inv = [i \in Inv |-> InitLocal("none")]
    /\ started = 0

NextScenario ==
    \/ StartOnce(1, PriceKinds, retailers)
    \/ ReadCatalog(1)
    \/ Generate(1, ScenarioDraws(LoopSets(inv[1])[inv[1].si]))
    \/ SavePrice(1)
    \/ SaveDeal(1)
    \/ CleanQuery(1)
    \/ Throw(1)

SpecScenario == InitScenario /\ [][NextScenario]_vars

(* SpecHealth: jobs of all kinds on instance 1 and healthCheck requests on  *)
(* instance 2, overlapping in any way, on a fresh project.                  *)
NextHealth ==
    \/ Start(1, Kinds, JobRetailers)
    \/ Step(1, FewResponses)
    \/ StartHealth(2)
    \/ CountCatalog(2)
    \/ CountDeals(2)
    \/ HealthFail(2)
    \/ Tick

SpecHealth == Init /\ [][NextHealth]_vars

(* SpecRace: the same project, with two price jobs that may overlap in any  *)
(* way, before or after the old deals have passed the horizon.              *)
NextRace ==
    \/ StartOnce(1, PriceKinds, JobRetailers)
    \/ StartOnce(2, PriceKinds, JobRetailers)
    \/ PriceStep(1)
    \/ PriceStep(2)
    \/ Tick

SpecRace == InitAged /\ [][NextRace]_vars

(* SpecLive: the same project, where from now on no pair qualifies: every   *)
(* observation drawn is without discount or out of stock, so that           *)
(* saveDealToFirestore is never reached.  Price jobs are triggered one      *)
(* after the other without end, and time passes (strong fairness of Tick,   *)
(* which is disabled while a job runs) up to MaxTicks horizons.             *)
LiveDraws ==
    { Draw(FALSE, 10, FALSE, 40, TRUE),     \* no discount, in stock
      Draw(TRUE, 10, TRUE, 50, FALSE) }     \* 50% off, out of stock

NextLive ==
    \/ StartAgain(1, PriceKinds, JobRetailers)
    \/ ReadCatalog(1)
    \/ Generate(1, LiveDraws)
    \/ SavePrice(1)
    \/ CleanQuery(1)
    \/ CleanCommit(1)
    \/ Throw(1)
    \/ Tick

SpecLive == InitAged /\ [][NextLive]_vars /\ SF_vars(Tick)

(* SpecWide: one price job, scheduled or on demand, on a project whose      *)
(* catalog holds 2, 75 or 101 items (fewer than either slice, between the   *)
(* two, more than both) and whose prices and deals are empty.  The loop     *)
(* runs over all 16 retailers; the generator's draws alternate with the     *)
(* position of the loop between 50% off in stock and no discount.  The      *)
(* job's awaits are taken one by one or, for the whole loop, in one step.    *)
WideSizes == {2, ManualSlice + 25, ScheduledSlice + 1}

WideCatalog(n) == CommitSets(EmptyColl, [m \in 1..n |-> Normalize(BulkItem(m))], 0)

WideDraw(si, ri) ==
    IF (si + ri) % 2 = 0
    THEN Draw(FALSE, 10, TRUE, 50, TRUE)
    ELSE Draw(FALSE, 10, FALSE, 40, TRUE)

InitWide ==
    /\ \E n \in WideSizes : lego_catalog = WideCatalog(n)
    /\ prices = EmptyColl
    /\ deals = EmptyColl
    /\ now = TickMs
    /\ inv = [i \in Inv |-> InitLocal("none")]
    /\ started = 0

NextWide ==
    \/ StartOnce(1, PriceKinds, retailers)
    \/ ReadCatalog(1)
    \/ Generate(1, {WideDraw(inv[1].si, inv[1].ri)})
    \/ SavePrice(1)
    \/ SaveDeal(1)
    \/ PriceLoop(1, [s \in 1..ScheduledSlice |-> [r \in 1..Len(retailers) |-> WideDraw(s, r)]])
    \/ CleanQuery(1)
    \/ Throw(1)

SpecWide == InitWide /\ [][NextWide]_vars

(* SpecSeed: one price job, scheduled or on demand, on a fresh project.     *)
(* The upstream has two pages, the two non-empty pages of RawPages, and     *)
(* any request may fail; the price loop runs over the first MaxRetailers    *)
(* retailers with observations that qualify or not.                         *)
SeedPages ==
    << << Raw(SetNum(1), "Millennium Falcon", 7541, "img1"),
          Raw(SetNum(2), "Tiny Car", 19, "img2"),
          Raw(SetNum(3), "Minifig Pack", 30, "img3") >>,
       << Raw(SetNum(4), "Polybag", 20, "img4"),
          Raw(SetNum(5), "Gear", 300, ""),
          Raw(SetNum(6), "Fire Truck", 182, "img6") >> >>

SeedResponses(page) ==
    {[kind |-> "throw"], [kind |-> "status"]}
    \cup (IF page <= Len(SeedPages)
          THEN {[kind |-> "ok", results |-> SeedPages[page], next |-> page < Len(SeedPages)]}
          ELSE {[kind |-> "ok", results |-> << >>, next |-> FALSE]})

SeedDraws ==
    { Draw(FALSE, 10, FALSE, 40, TRUE),     \* no discount, in stock
      Draw(TRUE, 10, FALSE, 40, TRUE) }     \* 10% off, in stock

NextSeed ==
    \/ StartOnce(1, PriceKinds, JobRetailers)
    \/ ReadCatalog(1)
    \/ FetchPage(1, SeedResponses(inv[1].page))
    \/ SaveChunk(1)
    \/ Generate(1, SeedDraws)
    \/ SavePrice(1)
    \/ SaveDeal(1)
    \/ CleanQuery(1)
    \/ Throw(1)

SpecSeed == Init /\ [][NextSeed]_vars

(* SpecLego: one price job, scheduled or on demand, over a catalog of two   *)
(* items (reference prices 2.00 and 830.00) and the first MaxRetailers      *)
(* retailers, prices and deals being empty.  For the retailer "lego" the    *)
(* generator's draws are any that Math.random() can give; for the others    *)
(* they are those of JobDraws.                                              *)
AllDraws ==
    {Draw(first, d1, second, d2, stock) :
        first \in BOOLEAN, d1 \in 10..40, second \in BOOLEAN, d2 \in 40..60, stock \in BOOLEAN}

LegoDraws(L) == IF L.retailers[L.ri] = "lego" THEN AllDraws ELSE JobDraws

InitLego ==
    /\ lego_catalog = CommitSets(EmptyColl,
                         << Normalize(Raw(SetNum(1), "Millennium Falcon", 7541, "img1")),
                            Normalize(Raw(SetNum(4), "Polybag", 20, "img4")) >>, 0)
    /\ prices = EmptyColl
    /\ deals = EmptyColl
    /\ now = TickMs
    /\ inv = [i \in Inv |-> InitLocal("none")]
    /\ started = 0

NextLego ==
    \/ StartOnce(1, PriceKinds, JobRetailers)
    \/ ReadCatalog(1)
    \/ Generate(1, LegoDraws(inv[1]))
    \/ SavePrice(1)
    \/ SaveDeal(1)
    \/ CleanQuery(1)
    \/ Throw(1)

SpecLego == InitLego /\ [][NextLego]_vars

(* SpecRetiring: one price job, scheduled or on demand, on a project whose  *)
(* catalog was synced at time 0 and then edited by hand: item 4 was marked  *)
(* retiring_soon and item 6 sold_out, item 1 is available as synced.        *)
(* Prices and deals are empty.                                              *)
MarkedCatalog ==
    LET synced == CommitSets(EmptyColl,
                     << Normalize(Raw(SetNum(1), "Millennium Falcon", 7541, "img1")),
                        Normalize(Raw(SetNum(4), "Polybag", 20, "img4")),
                        Normalize(Raw(SetNum(6), "Fire Truck", 182, "img6")) >>, 0)
    IN  [k \in DOMAIN synced |->
            [synced[k] EXCEPT !.availability =
                IF k = SetNum(4) THEN "retiring_soon"
                ELSE IF k = SetNum(6) THEN "sold_out"
                ELSE @]]

InitRetiring ==
    /\ lego_catalog = MarkedCatalog
    /\ prices = EmptyColl
    /\ deals = EmptyColl
    /\ now = TickMs
    /\ inv = [i \in Inv |-> InitLocal("none")]
    /\ started = 0

NextRetiring ==
    \/ StartOnce(1, PriceKinds, JobRetailers)
    \/ ReadCatalog(1)
    \/ Generate(1, JobDraws)
    \/ SavePrice(1)
    \/ SaveDeal(1)
    \/ CleanQuery(1)
    \/ Throw(1)

SpecRetiring == InitRetiring /\ [][NextRetiring]_vars

(* SpecAbort: one price job, scheduled or on demand, on the aged project,   *)
(* started 24 or 48 hours after the old deals were written; any of its      *)
(* awaits may throw, and the platform may end it at any point.              *)
NextAbort ==
    \/ StartOnce(1, PriceKinds, JobRetailers)
    \/ PriceStep(1)
    \/ TimeOut(1)
    \/ Tick

SpecAbort == InitAged /\ [][NextAbort]_vars

(* SpecSample: two on-demand price jobs that may overlap, on a project      *)
(* whose catalog holds 51 items and whose prices and deals are empty.  The  *)
(* loops run over the first MaxRetailers retailers with the draws of        *)
(* SpecWide.  The first job's awaits are taken one by one or, for the whole *)
(* loop, in one step; the second job's loop is taken in one step, at any    *)
(* point of the first.                                                      *)
InitSample ==
    /\ lego_catalog = WideCatalog(ManualSlice + 1)
    /\ prices = EmptyColl
    /\ deals = EmptyColl
    /\ now = TickMs
    /\ inv = [i \in Inv |-> InitLocal("none")]
    /\ started = 0

SampleDraws == [s \in 1..ManualSlice |-> [r \in 1..Len(retailers) |-> WideDraw(s, r)]]

NextSample ==
    \/ StartOnce(1, {"manualPriceUpdate"}, JobRetailers)
    \/ StartOnce(2, {"manualPriceUpdate"}, JobRetailers)
    \/ ReadCatalog(1)
    \/ ReadCatalog(2)
    \/ Generate(1, {WideDraw(inv[1].si, inv[1].ri)})
    \/ SavePrice(1)
    \/ SaveDeal(1)
    \/ PriceLoop(1, SampleDraws)
    \/ PriceLoop(2, SampleDraws)
    \/ CleanQuery(1)
    \/ CleanQuery(2)
    \/ Throw(1)
    \/ Throw(2)

SpecSample == InitSample /\ [][NextSample]_vars

(* SpecSlow: one price job, scheduled or on demand, on the aged project,   *)
(* triggered 24 hours after the old deals were written, and taking time:    *)
(* between any two of its awaits 100 seconds may pass, up to the 300        *)
(* seconds the platform gives it.  Any of its awaits may throw.             *)
NextSlow ==
    \/ StartOnce(1, PriceKinds, JobRetailers)
    \/ PriceStep(1)
    \/ Elapse(1, TickMs)

SpecSlow == InitAged /\ [][NextSlow]_vars

(* SpecDraw: one price job, scheduled or on demand, over a catalog of one   *)
(* item and the retailers "lego" and "amazon", prices and deals being       *)
(* empty.  The item is any of seven, of reference prices 2, 3, 4, 11, 20,   *)
(* 100 and 830; the generator's draws are every value of each of the two    *)
(* discounts with every combination of the two coin flips and of the stock  *)
(* draw, the discount that is not looked at being at one of its ends.       *)
PieceCounts == {20, 23, 32, 100, 182, 909, 7541}

SomeDraws ==
    {Draw(first, d1, FALSE, d2, stock) :
        first \in BOOLEAN, d1 \in 10..40, d2 \in {40, 60}, stock \in BOOLEAN}
    \cup {Draw(first, d1, TRUE, d2, stock) :
        first \in BOOLEAN, d1 \in {10, 40}, d2 \in 40..60, stock \in BOOLEAN}

DrawRetailers == SubSeq(retailers, 1, 2)

InitDraw ==
    /\ \E parts \in PieceCounts :
          lego_catalog = CommitSets(EmptyColl,
                             << Normalize(Raw(SetNum(1), "Millennium Falcon", parts, "img1")) >>, 0)
    /\ prices = EmptyColl
    /\ deals = EmptyColl
    /\ now = TickMs
    /\ inv = [i \in Inv |-> InitLocal("none")]
    /\ started = 0

NextDraw ==
    \/ StartOnce(1, PriceKinds, DrawRetailers)
    \/ ReadCatalog(1)
    \/ Generate(1, SomeDraws)
    \/ SavePrice(1)
    \/ SaveDeal(1)
    \/ CleanQuery(1)

SpecDraw == InitDraw /\ [][NextDraw]_vars

(* SpecShelved: one job of any kind on a project whose catalog was synced   *)
(* at time 0 and whose availabilities were then set by hand in the console: *)
(* items 1 and 4, which the upstream still serves (SeedPages), each at any  *)
(* of the four values of the type, and item 7, which the upstream no longer *)
(* serves, at sold_out.                                                     *)
Availability == {"available", "coming_soon", "sold_out", "retiring_soon"}

ShelvedCatalog(a1, a4) ==
    LET synced == CommitSets(EmptyColl,
                     << Normalize(Raw(SetNum(1), "Millennium Falcon", 7541, "img1")),
                        Normalize(Raw(SetNum(4), "Polybag", 20, "img4")),
                        Normalize(Raw(SetNum(7), "Windmill", 90, "img7")) >>, 0)
    IN  [k \in DOMAIN synced |->
            [synced[k] EXCEPT !.availability =
                IF k = SetNum(1) THEN a1
                ELSE IF k = SetNum(4) THEN a4
                ELSE "sold_out"]]

InitShelved ==
    /\ \E a1, a4 \in Availability : lego_catalog = ShelvedCatalog(a1, a4)
    /\ prices = EmptyColl
    /\ deals = EmptyColl
    /\ now = TickMs
    /\ inv = [i \in Inv |-> InitLocal("none")]
    /\ started = 0

NextShelved ==
    \/ StartOnce(1, Kinds, JobRetailers)
    \/ ReadCatalog(1)
    \/ FetchPage(1, SeedResponses(inv[1].page))
    \/ SaveChunk(1)
    \/ Generate(1, SeedDraws)
    \/ SavePrice(1)
    \/ SaveDeal(1)
    \/ CleanQuery(1)
    \/ Throw(1)

SpecShelved == InitShelved /\ [][NextShelved]_vars

----------------------------------------------------------------------------
(* Claims on fetchFromRebrickable, under SpecFetch *)

Last(s) == s[Len(s)]

FetchErrors == {"failed", "api_error"}

\* C2: fetchFromRebrickable issues at most maxPages (10) page requests and
\* then has ended, whatever the upstream answers: while it is still
\* paginating, the next page is the number of requests made plus one and is
\* at most 10, so every request brings the end of pagination one step nearer.
C2_AtMostTenRequests ==
    \A i \in Inv :
        /\ Len(inv[i].requests) <= 10
        /\ inv[i].pc = "fetch" =>
              /\ inv[i].page = Len(inv[i].requests) + 1
              /\ inv[i].page <= 10

\* C2 witness: ten pages, each non-empty with a next link, were requested and
\* pagination has ended with their items.
C2_Witness ==
    /\ Len(inv[1].requests) = 10
    /\ \A n \in 1..10 : inv[1].fetchLog[n] = "fetched"
    /\ inv[1].pc = "save"
    /\ Len(inv[1].sets) >= 10

\* C3: every item fetchFromRebrickable has accumulated has a price of at
\* least 20 currency units (2000 cents).
C3_PriceAtLeast20 ==
    \A i \in Inv : \A n \in 1..Len(inv[i].sets) : inv[i].sets[n].price >= 100 * 20

\* C8: a page request that fails (non-success status, or a thrown transport
\* error) adds no item, ends pagination, and does not enter the handler's
\* catch block; and after a failed request no further request is made.
C8_FailedPageStops ==
    [][\A i \in Inv :
        /\ (/\ Len(inv'[i].requests) = Len(inv[i].requests) + 1
            /\ Last(inv'[i].fetchLog) \in FetchErrors)
           => /\ inv'[i].sets = inv[i].sets
              /\ inv'[i].pc # "fetch"
              /\ ~inv'[i].threw
              /\ (inv'[i].status = "failed" => Len(inv[i].sets) = 0)
        /\ (inv[i].fetchLog # << >> /\ Last(inv[i].fetchLog) \in FetchErrors)
           => /\ inv'[i].requests = inv[i].requests
              /\ inv'[i].sets = inv[i].sets]_vars

\* C8 witness: the third request failed after two pages of items, and the
\* job goes on to save those items.
C8_Witness ==
    /\ Len(inv[1].requests) = 3
    /\ inv[1].fetchLog[3] \in FetchErrors
    /\ Len(inv[1].sets) = 3
    /\ inv[1].pc = "save"

----------------------------------------------------------------------------
(* Claims on the chunked batches, under SpecBulk *)

RECURSIVE Flatten(_)
Flatten(ss) == IF ss = << >> THEN << >> ELSE Head(ss) \o Flatten(Tail(ss))

Ceil(n, d) == (n + d - 1) \div d

SetNumbers(sets) == [n \in 1..Len(sets) |-> sets[n].setNumber]

\* the chunks cs partition the first records of input, in order, in full
\* chunks of 450 but for the last
ChunksOf(cs, input) ==
    /\ \A k \in 1..Len(cs) : Len(cs[k]) >= 1 /\ Len(cs[k]) <= 450
    /\ \A k \in 1..(Len(cs) - 1) : Len(cs[k]) = 450
    /\ Len(Flatten(cs)) <= Len(input)
    /\ Flatten(cs) = SubSeq(input, 1, Len(Flatten(cs)))

\* C6: saveLegoSetsCatalog and cleanOldDeals commit chunks of at most 450
\* operations, each but the last of exactly 450, whose concatenation in order
\* is the input; when the loop has run to its end there are ceil(n/450) of
\* them and they cover the whole input (1000 items: 450, 450, 100).
C6_ChunksAtMost450 ==
    \A i \in Inv :
        LET L == inv[i] IN
        /\ ChunksOf(L.batches, SetNumbers(L.sets))
        /\ ChunksOf(L.deleted, L.oldDeals)
        /\ (L.status = "completed" /\ L.kind \in CatalogKinds) =>
              /\ Flatten(L.batches) = SetNumbers(L.sets)
              /\ Len(L.batches) = Ceil(Len(L.sets), 450)
        /\ (L.status = "completed" /\ L.kind \in PriceKinds) =>
              /\ Flatten(L.deleted) = L.oldDeals
              /\ Len(L.deleted) = Ceil(Len(L.oldDeals), 450)

\* C6 witness: 1000 items were saved as chunks of 450, 450 and 100.
C6_Witness ==
    /\ inv[1].status = "completed"
    /\ Len(inv[1].sets) = 1000
    /\ Len(inv[1].batches) = 3
    /\ Len(inv[1].batches[1]) = 450
    /\ Len(inv[1].batches[2]) = 450
    /\ Len(inv[1].batches[3]) = 100

\* a sweep that deleted 451 old deals in chunks of 450 and 1
C6_SweepCase ==
    /\ inv[1].status = "completed"
    /\ Len(inv[1].oldDeals) = 451
    /\ Len(inv[1].deleted) = 2
    /\ Len(inv[1].deleted[1]) = 450

\* C9: when the commit of a chunk of the catalog upsert fails, the job ends
\* failed with the error surfaced (rethrown, or HTTP 500), the failed chunk
\* and the later ones are never committed, and the chunks committed before
\* stay in the store.
C9_FailedChunkAborts ==
    [][\A i \in Inv :
        /\ (inv[i].pc = "save" /\ inv'[i].pc # "save"
                /\ Len(inv[i].batches) < Ceil(Len(inv[i].sets), 450)
                /\ inv'[i].batches = inv[i].batches)
           => /\ inv'[i].status = "failed"
              /\ inv'[i].threw
              /\ inv'[i].outcome =
                    (IF inv[i].kind \in ScheduledKinds THEN "rethrown" ELSE "http500")
              /\ lego_catalog' = lego_catalog
              /\ SeqToSet(Flatten(inv[i].batches)) \subseteq DOMAIN lego_catalog'
        /\ inv[i].status = "failed"
           => /\ inv'[i] = inv[i]
              /\ lego_catalog' = lego_catalog]_vars

\* C9 witness: of three chunks the third failed; the job has failed and the
\* 900 items of the first two chunks are in the store.
C9_Witness ==
    /\ inv[1].status = "failed"
    /\ inv[1].threw
    /\ Len(inv[1].sets) = 1000
    /\ Len(inv[1].batches) = 2
    /\ Cardinality(DOMAIN lego_catalog) = 900

----------------------------------------------------------------------------
(* Claims on the price job and the sweep, run one after the other (SpecSeq) *)

\* the pairs a price job processes, as document ids
Processed(L) ==
    {DocId(LoopSets(L)[n].setNumber, L.retailers[r]) :
        n \in 1..Len(LoopSets(L)), r \in 1..Len(L.retailers)}

\* percent-off >= 10 and stock flag true, of a stored observation or deal
ClearsTheBar(p) ==
    /\ Round((p.originalPrice - p.currentPrice) * 100, p.originalPrice) >= 10
    /\ p.inStock

LastRunWasPriceJob == inv[1].status = "completed" /\ inv[1].kind \in PriceKinds

\* C1 (as claimed): after completed price-job runs, a deal is stored at a key
\* if and only if the observation stored in prices at that key has
\* percent-off >= 10 and stock flag true.
C1_DealIffQualifies ==
    LastRunWasPriceJob =>
        \A k \in DOMAIN prices \cup DOMAIN deals :
            k \in DOMAIN deals <=> (k \in DOMAIN prices /\ ClearsTheBar(prices[k]))

\* C1 (amended): after a completed price-job run that nothing overlapped,
\* every pair the run processed has its observation stored; if the stored
\* observation clears the bar, the deal computed from it is stored; the run
\* upserted one deal per processed pair that clears the bar and none for the
\* others; and every stored deal cleared the bar when it was written.  (A
\* deal of an earlier run whose pair no longer clears the bar is still there.)
C1_DealWrittenIffQualifies ==
    LastRunWasPriceJob =>
        /\ \A k \in Processed(inv[1]) :
              /\ k \in DOMAIN prices
              /\ ClearsTheBar(prices[k]) =>
                    /\ k \in DOMAIN deals
                    /\ \A f \in DOMAIN prices[k] : deals[k][f] = prices[k][f]
        /\ inv[1].dealsFound =
              Cardinality({k \in Processed(inv[1]) : ClearsTheBar(prices[k])})
        /\ \A k \in DOMAIN deals : ClearsTheBar(deals[k])

\* C1 witness: a price job has completed; one pair it processed clears the
\* bar and has its deal, another does not clear it and still has the deal an
\* earlier run wrote.
C1_Witness ==
    /\ LastRunWasPriceJob
    /\ \E k \in Processed(inv[1]) : ClearsTheBar(prices[k]) /\ k \in DOMAIN deals
    /\ \E k \in Processed(inv[1]) : ~ClearsTheBar(prices[k]) /\ k \in DOMAIN deals

\* C4: the step that ends a sweep which nothing overlaps leaves in deals
\* exactly the records whose lastUpdated is not older than now - 24 h, each
\* unchanged.
C4_SweepDeletesExactlyExpired ==
    [][(inv[1].pc \in {"cleanQuery", "cleanCommit"} /\ inv'[1].status = "completed")
        => deals' = [k \in {j \in DOMAIN deals :
                               deals[j].lastUpdated >= now - 24 * 60 * 60 * 1000} |->
                        deals[k]]]_vars

\* C4 witness: a sweep has deleted an expired deal and left a fresh one.
C4_Witness ==
    /\ LastRunWasPriceJob
    /\ Len(inv[1].deleted) = 1
    /\ inv[1].deleted[1] # << >>
    /\ deals # EmptyColl

\* a sweep that found a deal exactly 24 hours old and left it
C4_BoundaryCase ==
    /\ LastRunWasPriceJob
    /\ inv[1].deleted = << >>
    /\ \E k \in DOMAIN deals : deals[k].lastUpdated = now - 24 * 60 * 60 * 1000

----------------------------------------------------------------------------
(* Claims on the life of an invocation (SpecSeq) *)

Terminal == {"completed", "failed"}

Surfaced(L) ==
    CASE L.status = "failed" ->
            L.outcome = (IF L.kind \in ScheduledKinds THEN "rethrown" ELSE "http500")
      [] L.status = "completed" ->
            L.outcome = (IF L.kind \in ScheduledKinds THEN "returned" ELSE "http200")
      [] OTHER -> L.outcome = "none"

----------------------------------------------------------------------------
(* Claims on overlapping invocations (SpecJobs) *)

\* the price upsert instance i is about to make, applied to coll
PendingPrice(i) == inv[i].pc = "savePrice"

WritePrice(coll, i) ==
    Upsert(coll, DocId(inv[i].priceData.setNumber, inv[i].priceData.retailer),
           inv[i].priceData)

SamePair(p, q) == p.setNumber = q.setNumber /\ p.retailer = q.retailer

\* the catalog chunk instance i is about to commit, applied to coll
PendingChunk(i) == inv[i].pc = "save"

ChunkIds(i) ==
    LET chunk == Chunk(inv[i].sets, inv[i].offset)
    IN  {chunk[n].setNumber : n \in 1..Len(chunk)}

WriteChunk(coll, i) == CommitSets(coll, Chunk(inv[i].sets, inv[i].offset), now)

\* C5 (as claimed): the price upserts of two overlapping invocations commute:
\* applied in either order they leave the same prices store.
C5_UpsertsCommute ==
    \A i, j \in Inv :
        (i # j /\ PendingPrice(i) /\ PendingPrice(j)) =>
            WritePrice(WritePrice(prices, i), j) = WritePrice(WritePrice(prices, j), i)

\* C5 (amended): applied in either order, the price upserts and the catalog
\* chunk commits of two overlapping invocations leave the same set of keys
\* and the same records at every other key, and they commute when they are
\* for different keys; when two price upserts are for the same (item,
\* retailer) pair the record of the later write is what is stored, so the
\* contents depend on the order.
C5_UpsertsConvergeOnKeys ==
    \A i, j \in Inv :
        /\ (i # j /\ PendingPrice(i) /\ PendingPrice(j)) =>
            LET ij == WritePrice(WritePrice(prices, i), j)
                ji == WritePrice(WritePrice(prices, j), i)
                p == inv[i].priceData
                q == inv[j].priceData
            IN  /\ DOMAIN ij = DOMAIN ji
                /\ DOMAIN ij = DOMAIN prices \cup {p.setNumber \o "_" \o p.retailer,
                                                   q.setNumber \o "_" \o q.retailer}
                /\ \A k \in DOMAIN prices :
                      k \notin {p.setNumber \o "_" \o p.retailer,
                                q.setNumber \o "_" \o q.retailer}
                         => (ij[k] = prices[k] /\ ji[k] = prices[k])
                /\ ~SamePair(p, q) => ij = ji
                /\ SamePair(p, q) =>
                      /\ ij[p.setNumber \o "_" \o p.retailer] = q
                      /\ ji[p.setNumber \o "_" \o p.retailer] = p
        /\ (i # j /\ PendingChunk(i) /\ PendingChunk(j)) =>
            LET ij == WriteChunk(WriteChunk(lego_catalog, i), j)
                ji == WriteChunk(WriteChunk(lego_catalog, j), i)
            IN  /\ DOMAIN ij = DOMAIN ji
                /\ DOMAIN ij = DOMAIN lego_catalog \cup ChunkIds(i) \cup ChunkIds(j)
                /\ \A k \in DOMAIN lego_catalog \ (ChunkIds(i) \cup ChunkIds(j)) :
                      ij[k] = lego_catalog[k] /\ ji[k] = lego_catalog[k]
                /\ ChunkIds(i) \cap ChunkIds(j) = {} => ij = ji

\* C5 witness: two invocations are each about to upsert a different
\* observation for the same pair.
C5_Witness ==
    /\ PendingPrice(1) /\ PendingPrice(2)
    /\ SamePair(inv[1].priceData, inv[2].priceData)
    /\ inv[1].priceData.currentPrice # inv[2].priceData.currentPrice

\* C7: every stored deal has savings = round(originalPrice - currentPrice)
\* to the cent and percentOff = round((originalPrice - currentPrice) /
\* originalPrice * 100), of its own price fields.
C7_DealFieldsConsistent ==
    \A k \in DOMAIN deals :
        LET d == deals[k] IN
        /\ d.savings = Round(d.originalPrice - d.currentPrice, 1)
        /\ d.percentOff = Round((d.originalPrice - d.currentPrice) * 100, d.originalPrice)

\* C7 witness: two price jobs overlap; one has upserted a deal and the other
\* is about to upsert a deal for the same pair.
C7_Witness ==
    /\ inv[1].pc = "saveDeal" /\ inv[2].status = "running"
    /\ DocId(inv[1].priceData.setNumber, inv[1].priceData.retailer) \in DOMAIN deals
    /\ \E k \in DOMAIN deals : deals[k].percentOff = 10 /\ deals[k].savings = 200

----------------------------------------------------------------------------
(* Claims on re-writing the catalog (SpecResync) *)

\* the write of the chunk that is applied last to document k
LastWrite(chunk, k, time) ==
    Stamped(chunk[CHOOSE n \in 1..Len(chunk) :
                    /\ chunk[n].setNumber = k
                    /\ \A m \in (n + 1)..Len(chunk) : chunk[m].setNumber # k], time)

\* C11: a commit of saveLegoSetsCatalog leaves, at every document that was
\* already stored and that the chunk writes, each field of the write at its
\* new value and each stored field that the write lacks at its old value;
\* no field of a stored document is removed, and the documents the chunk
\* does not write stay as they are.
C11_UpsertMergesFields ==
    [][\A i \in Inv :
        (inv[i].pc = "save" /\ Len(inv'[i].batches) = Len(inv[i].batches) + 1) =>
            LET chunk == Chunk(inv[i].sets, inv[i].offset)
                ids == {chunk[n].setNumber : n \in 1..Len(chunk)}
            IN  \A k \in DOMAIN lego_catalog :
                    /\ k \in DOMAIN lego_catalog'
                    /\ DOMAIN lego_catalog[k] \subseteq DOMAIN lego_catalog'[k]
                    /\ k \notin ids => lego_catalog'[k] = lego_catalog[k]
                    /\ k \in ids =>
                          LET w == LastWrite(chunk, k, now) IN
                          /\ \A f \in DOMAIN w : lego_catalog'[k][f] = w[f]
                          /\ \A f \in DOMAIN lego_catalog[k] \ DOMAIN w :
                                lego_catalog'[k][f] = lego_catalog[k][f]]_vars

\* C11 witness: item 1 was re-written a day later: its name, image,
\* availability and lastUpdated are those of the new write, the field added
\* by hand is still there, and item 7, not written, is as it was.
C11_Witness ==
    /\ inv[1].batches # << >>
    /\ lego_catalog[SetNum(1)].name = "Millennium Falcon"
    /\ lego_catalog[SetNum(1)].imageUrl = "img1"
    /\ lego_catalog[SetNum(1)].availability = "available"
    /\ lego_catalog[SetNum(1)].lastUpdated = TickMs
    /\ lego_catalog[SetNum(1)].notes = "shelf 3"
    /\ lego_catalog[SetNum(7)] = SeededCatalog[SetNum(7)]

----------------------------------------------------------------------------
(* Further claims on fetchFromRebrickable (SpecFetch) *)

\* every raw entry the upstream of SpecFetch serves
RawEntries == UNION {SeqToSet(page) : page \in RawPages}

\* C12: every item fetchFromRebrickable has accumulated has at least 20
\* pieces and an image, and is the normalised form of a served raw entry
\* with at least 20 pieces and an image URL.
C12_NoSmallOrImagelessItem ==
    \A i \in Inv : \A n \in 1..Len(inv[i].sets) :
        LET set == inv[i].sets[n] IN
        /\ set.pieces >= 20
        /\ set.imageUrl # ""
        /\ \E raw \in RawEntries :
              /\ set = Normalize(raw)
              /\ raw.num_parts >= 20
              /\ raw.set_img_url # ""

\* C12 witness: both non-empty pages were fetched; of their six entries the
\* 19-piece car, the small minifig pack and the imageless gear were dropped,
\* and the 20-piece polybag was kept.
C12_Witness ==
    /\ inv[1].requests = << 1, 2 >>
    /\ inv[1].pc = "save"
    /\ SetNumbers(inv[1].sets) = << SetNum(1), SetNum(4), SetNum(6) >>
    /\ inv[1].sets[2].pieces = 20

----------------------------------------------------------------------------
(* Claims on two sweeps in a row (SpecTwice) *)

\* the invocation has run the query of cleanOldDeals
Queried(L) == L.kind \in PriceKinds /\ (L.pc = "cleanCommit" \/ L.status = "completed")

\* the first job has completed, sweep included, and the second, which has
\* written no deal, has run its sweep's query
TwoSweepsNoWrite ==
    /\ inv[1].status = "completed"
    /\ Queried(inv[2])
    /\ inv[2].dealsFound = 0

\* C13 (as claimed): of two sweeps in a row with no deal written in between,
\* the second finds nothing to delete.
C13_SecondSweepDeletesNothing ==
    TwoSweepsNoWrite => inv[2].oldDeals = << >>

\* C13 (amended): of two sweeps in a row with no deal written in between,
\* the second finds exactly deals whose lastUpdated is at or after the first
\* sweep's cutoff and before its own, so that it finds nothing when the
\* clock reads the same at both; and a sweep that finds nothing leaves the
\* deals store as it is.
C13_SecondSweepDeletesNewlyExpired ==
    /\ [](TwoSweepsNoWrite =>
            /\ inv[2].cutoff = inv[1].cutoff => inv[2].oldDeals = << >>
            /\ inv[2].pc = "cleanCommit" =>
                  \A k \in SeqToSet(inv[2].oldDeals) :
                      /\ k \in DOMAIN deals
                      /\ deals[k].lastUpdated >= inv[1].cutoff
                      /\ deals[k].lastUpdated < inv[2].cutoff)
    /\ [][\A i \in Inv :
            (inv[i].pc = "cleanQuery" /\ inv'[i].pc # "cleanQuery" /\ inv'[i].oldDeals = << >>)
                => deals' = deals]_vars

\* C13 witness: 48 hours after the old deals were written the first job
\* swept them out; the second job, with the same clock reading and no deal
\* written, has completed its sweep and found nothing.
C13_Witness ==
    /\ inv[1].status = "completed"
    /\ inv[1].deleted # << >>
    /\ inv[2].status = "completed"
    /\ inv[2].dealsFound = 0
    /\ inv[2].cutoff = inv[1].cutoff
    /\ inv[2].oldDeals = << >>

----------------------------------------------------------------------------
(* Claims on the two-item scenario (SpecScenario) *)

\* the deals of item A at every retailer but "lego"
ScenarioDealIds ==
    {DocId(ScenarioA.setNumber, retailers[n]) : n \in 2..Len(retailers)}

\* C14: in the scenario no deal is ever written for item B or for A at
\* "lego", and a price job that has completed has written a deal, at 50%
\* off, for A at each of the 15 other retailers, 15 deals in all.
C14_ScenarioDeals ==
    /\ DOMAIN deals \subseteq ScenarioDealIds
    /\ \A k \in DOMAIN deals :
          deals[k].setNumber = ScenarioA.setNumber /\ deals[k].percentOff = 50
    /\ inv[1].status = "completed" =>
          /\ DOMAIN deals = ScenarioDealIds
          /\ inv[1].dealsFound = Len(retailers) - 1
          /\ \A n \in 1..Len(retailers) :
                /\ DocId(ScenarioA.setNumber, retailers[n]) \in DOMAIN prices
                /\ DocId(ScenarioB.setNumber, retailers[n]) \in DOMAIN prices

\* C14 witness: the job has completed; prices hold the 32 observations and
\* deals the 15 deals of item A.
C14_Witness ==
    /\ inv[1].status = "completed"
    /\ Cardinality(DOMAIN prices) = 32
    /\ Cardinality(DOMAIN deals) = 15
    /\ DocId(ScenarioA.setNumber, "lego") \notin DOMAIN deals
    /\ prices[DocId(ScenarioB.setNumber, "amazon")].currentPrice = ScenarioB.price

----------------------------------------------------------------------------
(* Claims on the stores under overlapping invocations (SpecJobs) *)

\* C15: every record of prices and of deals is stored at the key
\* setNumber + "_" + retailer of its own fields, and every record of the
\* catalog at the key that is its setNumber.
C15_KeyIsOfRecord ==
    /\ \A k \in DOMAIN prices : prices[k].setNumber \o "_" \o prices[k].retailer = k
    /\ \A k \in DOMAIN deals : deals[k].setNumber \o "_" \o deals[k].retailer = k
    /\ \A k \in DOMAIN lego_catalog : lego_catalog[k].setNumber = k

\* C15 witness: two price jobs are running; the catalog has been seeded,
\* prices hold an observation for every retailer and deals hold two deals.
C15_Witness ==
    /\ inv[1].status = "running" /\ inv[2].status = "running"
    /\ DOMAIN lego_catalog # {}
    /\ Cardinality(DOMAIN prices) = Len(JobRetailers)
    /\ Cardinality(DOMAIN deals) = 2

\* C16: no step removes a key from the catalog or from prices, and a step
\* that removes keys from deals is the commit of a chunk of deletes of
\* cleanOldDeals, which removes keys of that chunk only.
C16_OnlySweepDeletes ==
    [][/\ DOMAIN lego_catalog \subseteq DOMAIN lego_catalog'
       /\ DOMAIN prices \subseteq DOMAIN prices'
       /\ ~(DOMAIN deals \subseteq DOMAIN deals') =>
             \E i \in Inv :
                 /\ inv[i].pc = "cleanCommit"
                 /\ Len(inv'[i].deleted) = Len(inv[i].deleted) + 1
                 /\ (DOMAIN deals \ DOMAIN deals') \subseteq SeqToSet(Last(inv'[i].deleted))]_vars

\* C16 witness: a sweep has deleted deals; the observations of the same
\* pairs are still in prices and the catalog still holds its item.
C16_Witness ==
    \E i \in Inv :
        /\ inv[i].deleted # << >>
        /\ \A k \in SeqToSet(inv[i].deleted[1]) : k \in DOMAIN prices /\ k \notin DOMAIN deals
        /\ DOMAIN lego_catalog # {}

----------------------------------------------------------------------------
(* Claims on healthCheck (SpecHealth) *)

\* C17: every step of a healthCheck invocation, from its start to its
\* answer (200 or 500), leaves the catalog, prices and deals as they are.
C17_HealthCheckReadsOnly ==
    [][\A i \in Inv :
        (inv'[i].kind = "healthCheck" /\ inv'[i] # inv[i]) =>
            /\ lego_catalog' = lego_catalog
            /\ prices' = prices
            /\ deals' = deals]_vars

\* C17 witness: a healthCheck has answered with the counts of a catalog of
\* one item and of two deals while a price job was running, and the stores
\* still hold them.
C17_Witness ==
    /\ inv[2].kind = "healthCheck"
    /\ inv[2].status = "completed"
    /\ inv[2].outcome = "http200"
    /\ inv[2].catalogSize = 1
    /\ inv[2].dealsCount = 2
    /\ inv[1].status = "running"
    /\ Cardinality(DOMAIN lego_catalog) = 1
    /\ Cardinality(DOMAIN deals) = 2

\* a healthCheck has failed on its second count, over a filled catalog
C17_FailedCase ==
    /\ inv[2].kind = "healthCheck"
    /\ inv[2].status = "failed"
    /\ inv[2].outcome = "http500"
    /\ inv[2].catalogSize = 1
    /\ Cardinality(DOMAIN lego_catalog) = 1

----------------------------------------------------------------------------
(* Claims on a sweep racing a writer (SpecRace) *)

\* invocation j has upserted the deal of its current observation
WroteDeal(j) ==
    /\ inv[j].priceData # NoPrice
    /\ Qualifies(inv[j].priceData)
    /\ inv[j].dealsFound > 0
    /\ inv[j].pc \in {"price", "cleanQuery", "cleanCommit"} \/ inv[j].status = "completed"

\* C18: the commit of a chunk of deletes removes every deal of the chunk,
\* also one that another invocation has upserted since the query and whose
\* lastUpdated is inside the horizon when the commit is made.
C18_SweepDeletesRefreshedDeal ==
    [][\A i \in Inv :
        (inv[i].pc = "cleanCommit" /\ Len(inv'[i].deleted) = Len(inv[i].deleted) + 1) =>
            \A k \in SeqToSet(Chunk(inv[i].oldDeals, inv[i].offset)) :
                /\ k \notin DOMAIN deals'
                /\ (k \in DOMAIN deals /\ deals[k].lastUpdated >= now - HorizonMs)
                      => k \notin DOMAIN deals']_vars

\* C18 witness: invocation i queried the old deals; invocation j then
\* upserted one of them with a lastUpdated inside the horizon; i has
\* committed its deletes and the deal is gone, while j's observation of the
\* pair, which qualifies, is in prices.
C18_Witness ==
    \E i, j \in Inv :
        /\ i # j
        /\ WroteDeal(j)
        /\ LET p == inv[j].priceData
               k == DocId(p.setNumber, p.retailer)
           IN  /\ inv[i].deleted # << >>
               /\ k \in SeqToSet(inv[i].deleted[1])
               /\ p.lastUpdated >= inv[i].cutoff
               /\ p.lastUpdated >= now - HorizonMs
               /\ k \notin DOMAIN deals
               /\ prices[k] = p

----------------------------------------------------------------------------
(* Claims on a deal whose pair has stopped qualifying (SpecLive) *)

\* the step is the commit by i of a chunk of deletes
CommitsDeletes(i) ==
    inv[i].pc = "cleanCommit" /\ Len(inv'[i].deleted) = Len(inv[i].deleted) + 1

\* the running invocation has observed the pair of key k as not qualifying
ObservedNotQualifying(k) ==
    /\ k \in DOMAIN prices
    /\ prices[k].lastUpdated = now
    /\ ~Qualifies(prices[k])

\* the step is the return of a price job that has run to its end
JobCompletes == inv[1].status = "running" /\ inv'[1].status = "completed"

\* if price jobs keep completing, each deal of the aged project is
\* eventually deleted
StaleDealsEventuallyDeleted ==
    ([]<><<JobCompletes>>_vars) =>
        \A k \in DOMAIN AgedDeals : (k \in DOMAIN deals) ~> (k \notin DOMAIN deals)

C19_KeptCase ==
    /\ now = TickMs
    /\ inv[1].status = "completed"
    /\ inv[1].dealsFound = 0
    /\ deals = AgedDeals
    /\ \A k \in DOMAIN AgedDeals : ObservedNotQualifying(k)

----------------------------------------------------------------------------
(* Claims on the order of fetch and save in a catalog job (SpecFetch) *)

\* C20: while a catalog job is paginating it has committed no chunk and
\* its steps leave the catalog as it is; once it has committed a chunk it
\* makes no further page request; and a chunk is committed only of the
\* items that the ended pagination returned.
C20_SaveAfterFetchEnds ==
    /\ [](\A i \in Inv : inv[i].pc = "fetch" => inv[i].batches = << >>)
    /\ [][/\ \A i \in Inv :
              /\ (inv[i].pc = "fetch" /\ inv'[i] # inv[i]) => lego_catalog' = lego_catalog
              /\ inv[i].batches # << >> =>
                    (inv'[i].requests = inv[i].requests /\ inv'[i].sets = inv[i].sets)
          /\ lego_catalog' # lego_catalog =>
                \E i \in Inv : /\ inv[i].pc = "save"
                                /\ inv'[i].requests = inv[i].requests
                                /\ inv'[i].sets = inv[i].sets]_vars

\* C20 witness: three pages were requested, then the items of the first two
\* were committed in one chunk: the catalog holds the three items and the
\* job has completed.
C20_Witness ==
    /\ inv[1].requests = << 1, 2, 3 >>
    /\ Len(inv[1].batches) = 1
    /\ inv[1].status = "completed"
    /\ DOMAIN lego_catalog = {SetNum(1), SetNum(4), SetNum(6)}

----------------------------------------------------------------------------
(* Claims on the extent of the price loop (SpecWide) *)

\* the pairs of the first n items of sets with each of the 16 retailers, as
\* document ids
PrefixPairs(sets, n) ==
    {sets[m].setNumber \o "_" \o retailers[r] :
        m \in 1..Min(n, Len(sets)), r \in 1..16}

\* the length of the prefix: 100 items on the scheduled path, 50 on demand
PrefixLen(kind) == IF kind = "updatePrices" THEN 100 ELSE 50

\* C21: a price job over n selected items, on a project with no prices yet,
\* writes prices and deals only for pairs of the first min(n, 100) items
\* (scheduled) or min(n, 50) items (on demand) and the 16 retailers; every
\* price upsert is for the next pair in the order items-then-retailers and
\* creates a new record, so none is written twice; a deal upsert follows the
\* price upsert of its own pair and also creates a new record; and a job
\* that has completed has written one observation for each pair of the
\* prefix, 16 * min(n, 100) or 16 * min(n, 50) in all.
C21_PrefixTimesRetailers ==
    /\ [](\A i \in Inv :
            LET L == inv[i] IN
            L.kind \in PriceKinds =>
                /\ DOMAIN prices \subseteq PrefixPairs(L.sets, PrefixLen(L.kind))
                /\ DOMAIN deals \subseteq DOMAIN prices
                /\ L.dealsFound = Cardinality(DOMAIN deals)
                /\ L.status = "completed" =>
                      /\ DOMAIN prices = PrefixPairs(L.sets, PrefixLen(L.kind))
                      /\ Cardinality(DOMAIN prices) =
                            16 * Min(Len(L.sets), PrefixLen(L.kind)))
    /\ [][\A i \in Inv :
            LET L == inv[i]
                item == {L.sets[L.si].setNumber \o "_" \o retailers[r] : r \in 1..16}
                all == PrefixPairs(L.sets, PrefixLen(L.kind))
                k == L.sets[L.si].setNumber \o "_" \o retailers[L.ri]
                newPrices == DOMAIN prices' \ DOMAIN prices
                newDeals == DOMAIN deals' \ DOMAIN deals
            IN  (L.kind \in PriceKinds /\ (prices' # prices \/ deals' # deals)) =>
                  /\ L.pc \in {"price", "savePrice", "saveDeal"}
                  /\ L.si <= PrefixLen(L.kind)
                  /\ Cardinality(DOMAIN prices) =
                        (L.si - 1) * 16 + (IF L.pc = "saveDeal" THEN L.ri ELSE L.ri - 1)
                  /\ \A j \in DOMAIN prices : j \in DOMAIN prices' /\ prices'[j] = prices[j]
                  /\ \A j \in DOMAIN deals : j \in DOMAIN deals' /\ deals'[j] = deals[j]
                  /\ newPrices \subseteq (IF L.pc = "price" THEN all ELSE item)
                  /\ newDeals \subseteq newPrices \cup DOMAIN prices
                  /\ L.pc = "savePrice" => (newPrices = {k} /\ newDeals = {})
                  /\ L.pc = "saveDeal" => (newPrices = {} /\ newDeals = {k})
                  /\ L.pc = "price" => newPrices = all]_vars

\* C21 witness: a scheduled job over 101 items has completed: prices hold
\* the 1600 observations of the first 100 items, none of item 101, and deals
\* hold the deals of half of the pairs without "lego".
C21_Witness ==
    /\ inv[1].kind = "updatePrices"
    /\ inv[1].status = "completed"
    /\ Len(inv[1].sets) = 101
    /\ Cardinality(DOMAIN prices) = 1600
    /\ DocId(SetNum(100), "walgreens") \in DOMAIN prices
    /\ DocId(SetNum(101), "lego") \notin DOMAIN prices
    /\ inv[1].dealsFound = 750

\* an on-demand job over 75 items has completed with the 800 observations
\* of the first 50
C21_OnDemandCase ==
    /\ inv[1].kind = "manualPriceUpdate"
    /\ inv[1].status = "completed"
    /\ Len(inv[1].sets) = 75
    /\ Cardinality(DOMAIN prices) = 800
    /\ DocId(SetNum(51), "lego") \notin DOMAIN prices

----------------------------------------------------------------------------
(* Claims on a price job that finds the catalog empty (SpecSeed) *)

\* the query of getLegoSetsCatalog selects no document of the catalog
NothingSelectable ==
    \A k \in DOMAIN lego_catalog :
        lego_catalog[k].availability \notin {"available", "retiring_soon"}

\* the price job has called fetchFromRebrickable
Seeding(L) == L.kind \in PriceKinds /\ (L.pc = "fetch" \/ L.requests # << >>)

\* C22: a price job whose catalog query returns nothing goes on to fetch
\* from page 1; while it fetches and saves it writes no price and no deal;
\* and when it writes a price, every item it fetched is stored in the
\* catalog with the fields fetched, and the price is for one of them.
C22_SeedsBeforePricing ==
    /\ [][\A i \in Inv :
            LET L == inv[i] IN
            /\ (L.kind \in PriceKinds /\ L.pc = "read" /\ inv'[i].pc # "read"
                    /\ ~inv'[i].threw /\ NothingSelectable)
                  => (inv'[i].pc = "fetch" /\ inv'[i].page = 1 /\ inv'[i].sets = << >>)
            /\ (Seeding(L) /\ L.pc \in {"fetch", "save"} /\ inv'[i] # L)
                  => (prices' = prices /\ deals' = deals)
            /\ (Seeding(L) /\ L.pc = "savePrice" /\ prices' # prices)
                  => /\ \A n \in 1..Len(L.sets) :
                          /\ L.sets[n].setNumber \in DOMAIN lego_catalog
                          /\ \A f \in DOMAIN L.sets[n] :
                                lego_catalog[L.sets[n].setNumber][f] = L.sets[n][f]
                     /\ \E n \in 1..Len(L.sets) :
                          /\ L.sets[n].setNumber = L.priceData.setNumber
                          /\ L.priceData.originalPrice = L.sets[n].price
                     /\ \E k \in DOMAIN prices' :
                          /\ prices'[k] = L.priceData
                          /\ \A j \in DOMAIN prices' \ {k} :
                                j \in DOMAIN prices /\ prices'[j] = prices[j]]_vars
    /\ [](\A i \in Inv :
            Seeding(inv[i]) =>
                \A k \in DOMAIN prices : prices[k].setNumber \in DOMAIN lego_catalog)

\* C22 witness: a price job found the catalog empty, fetched three items
\* over two pages, saved them, and has completed with an observation of each
\* at each retailer of its loop.
C22_Witness ==
    /\ inv[1].kind \in PriceKinds
    /\ inv[1].status = "completed"
    /\ inv[1].requests = << 1, 2 >>
    /\ Len(inv[1].batches) = 1
    /\ DOMAIN lego_catalog = {SetNum(1), SetNum(4), SetNum(6)}
    /\ Cardinality(DOMAIN prices) = 3 * Len(inv[1].retailers)

\* a price job found the catalog empty and fetched nothing: it has
\* completed without a price
C22_NothingFetchedCase ==
    /\ inv[1].kind \in PriceKinds
    /\ inv[1].status = "completed"
    /\ inv[1].requests # << >>
    /\ inv[1].sets = << >>
    /\ prices = EmptyColl
    /\ lego_catalog = EmptyColl

----------------------------------------------------------------------------
(* Claims on the order of the page requests (SpecFetch) *)

\* C23: the pages an invocation has requested are 1, 2, 3, ... in order,
\* each once; a request that failed (non-success status or thrown error) is
\* the last request of the invocation, which has left pagination; and each
\* request made is for the page after the one requested before.
C23_PagesInOrderNoRetry ==
    /\ [](\A i \in Inv :
            LET L == inv[i] IN
            /\ Len(L.fetchLog) = Len(L.requests)
            /\ \A n \in 1..Len(L.requests) : L.requests[n] = n
            /\ \A n \in 1..Len(L.fetchLog) :
                  L.fetchLog[n] \in {"failed", "api_error"} =>
                      (n = Len(L.fetchLog) /\ L.pc # "fetch"))
    /\ [][\A i \in Inv :
            inv'[i].requests # inv[i].requests =>
                /\ inv[i].pc = "fetch"
                /\ inv'[i].requests = Append(inv[i].requests, Len(inv[i].requests) + 1)
                /\ \A n \in 1..Len(inv[i].fetchLog) :
                      inv[i].fetchLog[n] \notin {"failed", "api_error"}]_vars

\* C23 witness: pages 1 to 4 were requested in order; the request of page 4
\* threw, and the job has gone on to save the items of the first three.
C23_Witness ==
    /\ inv[1].requests = << 1, 2, 3, 4 >>
    /\ inv[1].fetchLog = << "fetched", "fetched", "fetched", "failed" >>
    /\ inv[1].pc = "save"
    /\ inv[1].sets # << >>

----------------------------------------------------------------------------
(* Claims on the retailer "lego" (SpecLego) *)

\* the observation is at the reference price, 0% off
AtReferencePrice(p) ==
    /\ p.currentPrice = p.originalPrice
    /\ Round((p.originalPrice - p.currentPrice) * 100, p.originalPrice) = 0

\* C24: no deal is stored for the retailer "lego", and every observation
\* generated or stored for that retailer has its current price equal to its
\* reference price and is 0% off, whatever the item and the draws.
C24_NoDealAtLego ==
    /\ \A k \in DOMAIN deals : deals[k].retailer # "lego"
    /\ \A k \in DOMAIN prices : prices[k].retailer = "lego" => AtReferencePrice(prices[k])
    /\ \A i \in Inv :
          (inv[i].priceData # NoPrice /\ inv[i].priceData.retailer = "lego")
              => (AtReferencePrice(inv[i].priceData) /\ inv[i].pc # "saveDeal")

\* C24 witness: a price job has completed; both items have their
\* observation at "lego", in stock, and a deal elsewhere, but none at "lego".
C24_Witness ==
    /\ inv[1].status = "completed"
    /\ \A n \in {1, 4} :
          /\ prices[DocId(SetNum(n), "lego")].inStock
          /\ DocId(SetNum(n), "lego") \notin DOMAIN deals
          /\ DocId(SetNum(n), "amazon") \in DOMAIN deals

----------------------------------------------------------------------------
(* Claims on items that are not available (SpecRetiring) *)

\* the availability stored for the item of a price or deal record
AvailabilityOf(p) == lego_catalog[p.setNumber].availability

\* C25: every observation generated or stored for an item whose
\* availability is not "available" has its stock flag false, and every deal
\* is for an item that is "available"; a price job that has completed has
\* written the observations of the retiring_soon item, which its query
\* selects, and no deal for it.
C25_NoDealUnlessAvailable ==
    /\ \A k \in DOMAIN prices : AvailabilityOf(prices[k]) # "available" => ~prices[k].inStock
    /\ \A k \in DOMAIN deals : AvailabilityOf(deals[k]) = "available"
    /\ \A i \in Inv :
          LET L == inv[i] IN
          /\ (L.priceData # NoPrice /\ AvailabilityOf(L.priceData) # "available")
                => (~L.priceData.inStock /\ L.pc # "saveDeal")
          /\ (L.kind \in PriceKinds /\ L.status = "completed") =>
                \A r \in 1..Len(L.retailers) :
                    \A k \in DOMAIN lego_catalog :
                        lego_catalog[k].availability = "retiring_soon" =>
                            /\ (k \o "_" \o L.retailers[r]) \in DOMAIN prices
                            /\ (k \o "_" \o L.retailers[r]) \notin DOMAIN deals

\* C25 witness: a price job has completed over the available and the
\* retiring_soon item; the latter has an observation at 10% off at
\* "amazon", out of stock, and no deal, while the former has a deal there;
\* the sold_out item was not priced.
C25_Witness ==
    /\ inv[1].status = "completed"
    /\ Len(inv[1].sets) = 2
    /\ prices[DocId(SetNum(4), "amazon")].currentPrice = 180
    /\ ~prices[DocId(SetNum(4), "amazon")].inStock
    /\ DocId(SetNum(4), "amazon") \notin DOMAIN deals
    /\ DocId(SetNum(1), "amazon") \in DOMAIN deals
    /\ DocId(SetNum(6), "amazon") \notin DOMAIN prices

----------------------------------------------------------------------------
(* Claims on a price job that ends inside its loop (SpecAbort) *)

\* the positions of the loop before item si, retailer ri
Before(L) ==
    {<<s, r>> \in (1..L.si) \X (1..Len(L.retailers)) : s < L.si \/ r < L.ri}

\* C26: when a price job ends inside its loop, by an upsert that throws or
\* by being cut off, the step leaves prices and deals as they are, with the
\* observation of every pair before the loop's position as this invocation
\* wrote it; the invocation has not run the sweep's query or deleted a deal;
\* and it takes no further step, so that the remaining pairs are never
\* processed and the stores stay as they are.
C26_AbortKeepsWrites ==
    [][\A i \in Inv :
        LET L == inv[i] IN
        /\ (L.kind \in PriceKinds /\ L.pc \in {"price", "savePrice", "saveDeal"}
                /\ inv'[i].status = "failed")
              => /\ prices' = prices
                 /\ deals' = deals
                 /\ inv'[i].si = L.si /\ inv'[i].ri = L.ri
                 /\ inv'[i].oldDeals = << >> /\ inv'[i].deleted = << >>
                 /\ inv'[i].outcome \in {"rethrown", "http500", "timeout"}
                 /\ \A q \in Before(L) :
                       LET k == L.sets[q[1]].setNumber \o "_" \o L.retailers[q[2]]
                       IN  k \in DOMAIN prices' /\ prices'[k].lastUpdated = now
                 /\ L.dealsFound = Cardinality({k \in DOMAIN deals' : deals'[k].lastUpdated = now})
        /\ (L.kind \in PriceKinds /\ L.status = "failed")
              => (inv'[i] = L /\ prices' = prices /\ deals' = deals)]_vars

\* C26 witness: 48 hours after the old deals were written a price job has
\* thrown at its third price upsert: the two observations and the one deal
\* it had written are stored, the old deals that it did not re-write are
\* still there, and it has run no sweep.
C26_Witness ==
    /\ now = 2 * TickMs
    /\ inv[1].status = "failed"
    /\ inv[1].threw
    /\ inv[1].si = 1 /\ inv[1].ri = 3
    /\ inv[1].dealsFound = 1
    /\ Cardinality({k \in DOMAIN prices : prices[k].lastUpdated = now}) = 2
    /\ Cardinality({k \in DOMAIN deals : deals[k].lastUpdated = now}) = 1
    /\ \E k \in DOMAIN deals : deals[k].lastUpdated < now - HorizonMs
    /\ inv[1].deleted = << >>

\* the same job, cut off before its deal upsert instead
C26_TruncatedCase ==
    /\ now = 2 * TickMs
    /\ inv[1].status = "failed"
    /\ inv[1].outcome = "timeout"
    /\ ~inv[1].threw
    /\ inv[1].si = 1 /\ inv[1].ri = 2
    /\ Qualifies(inv[1].priceData)
    /\ prices[DocId(inv[1].priceData.setNumber, "amazon")] = inv[1].priceData
    /\ deals[DocId(inv[1].priceData.setNumber, "amazon")].lastUpdated = 0

----------------------------------------------------------------------------
(* Claims on the answer of manualPriceUpdate (SpecSample) *)

\* the invocation has answered res.json({ success: true, ... })
Answered(L) == L.kind = "manualPriceUpdate" /\ L.outcome = "http200"

\* the keys of the deals in store, in the order in which a loop over the
\* catalog processes their pairs
InLoopOrder(coll) ==
    Sorted([k \in DOMAIN coll |->
              SetIndex[coll[k].setNumber] * Len(retailers) + RetailerIndex[coll[k].retailer]])

\* the items of which prices hold an observation
PricedItems == {prices[k].setNumber : k \in DOMAIN prices}

\* C27: an on-demand price job that has answered reports as dealsFound the
\* number of deals it upserted, as sampleDeals the first min(5, dealsFound)
\* of them in the order of the loop, and as catalogSize the number of items
\* its query returned (51), not the number it processed (50); the counter
\* of an invocation changes only by its own deal upserts, one by one, also
\* when another invocation upserts deals for the same pairs.  (Here every
\* job upserts a deal for the same 50 pairs, so the deals in store are
\* those that any one job that has answered upserted.)
C27_AnswerCountsOwnDeals ==
    /\ [](\A i \in Inv :
            LET L == inv[i]
                R == Response(L)
                order == InLoopOrder(deals)
            IN  Answered(L) =>
                  /\ R.dealsFound = Cardinality(DOMAIN deals)
                  /\ Len(R.sampleDeals) = Min(5, R.dealsFound)
                  /\ \A n \in 1..Len(R.sampleDeals) :
                        LET d == deals[order[n]] IN
                        /\ R.sampleDeals[n].setNumber = d.setNumber
                        /\ R.sampleDeals[n].retailer = d.retailer
                        /\ R.sampleDeals[n].currentPrice = d.currentPrice
                        /\ R.sampleDeals[n].originalPrice = d.originalPrice
                        /\ R.sampleDeals[n].percentOff = d.percentOff
                        /\ R.sampleDeals[n].savings = d.savings
                  /\ R.catalogSize = Cardinality(DOMAIN lego_catalog)
                  /\ R.catalogSize = 51
                  /\ Cardinality(PricedItems) = 50)
    /\ [][\A i \in Inv :
            LET L == inv[i] IN
            (L.kind = "manualPriceUpdate" /\ inv'[i].dealsFound # L.dealsFound) =>
                /\ L.pc \in {"saveDeal", "price"}
                /\ \A j \in Inv \ {i} : inv'[j] = inv[j]
                /\ L.pc = "saveDeal" =>
                      /\ inv'[i].dealsFound = L.dealsFound + 1
                      /\ deals'[L.priceData.setNumber \o "_" \o L.priceData.retailer].currentPrice
                            = L.priceData.currentPrice
                /\ L.pc = "price" =>
                      inv'[i].dealsFound =
                          Cardinality({k \in DOMAIN deals' : deals'[k].lastUpdated = now})]_vars

\* C27 witness: while the first job was in its loop, having upserted 10
\* deals, the second job ran its loop and answered: it reports the 50 deals
\* it upserted, 5 sample deals and a catalog size of 51; the deals store
\* holds 50 records, fewer than the two counters together.
C27_Witness ==
    /\ Answered(inv[2])
    /\ inv[1].status = "running"
    /\ inv[1].pc = "savePrice"
    /\ inv[1].dealsFound = 10
    /\ Response(inv[2]).dealsFound = 50
    /\ Len(Response(inv[2]).sampleDeals) = 5
    /\ Response(inv[2]).catalogSize = 51
    /\ Cardinality(DOMAIN deals) = 50

\* both jobs have answered, each reporting 50 deals, over a deals store of
\* 50 records
C27_BothAnsweredCase ==
    /\ Answered(inv[1]) /\ Answered(inv[2])
    /\ Response(inv[1]).dealsFound = 50
    /\ Response(inv[2]).dealsFound = 50
    /\ Len(Response(inv[1]).sampleDeals) = 5
    /\ Cardinality(DOMAIN deals) = 50

----------------------------------------------------------------------------
(* Claims on the relationships between the stores (SpecJobs) *)

\* C28: on a project that started empty and in which nothing is deleted by
\* hand, every deal is stored at a key at which an observation is stored,
\* and every observation is of an item that is stored in the catalog, under
\* any interleaving of jobs and their sweeps.
C28_DealsWithinPricesWithinCatalog ==
    /\ DOMAIN deals \subseteq DOMAIN prices
    /\ \A k \in DOMAIN prices : prices[k].setNumber \in DOMAIN lego_catalog

\* C28 witness: a price job seeded the catalog and wrote deals; two days
\* later another price job, on the other instance, has written a deal anew
\* and swept an old one out, whose observation is still stored.
C28_Witness ==
    \E i, j \in Inv :
        /\ inv[i].kind \in PriceKinds /\ inv[i].batches # << >>
        /\ inv[j].kind \in PriceKinds /\ inv[j].deleted # << >>
        /\ inv[j].dealsFound > 0
        /\ deals # EmptyColl
        /\ \E k \in DOMAIN prices : k \notin DOMAIN deals /\ k \in SeqToSet(inv[j].deleted[1])

----------------------------------------------------------------------------
(* Claims on a catalog whose availabilities were set by hand (SpecShelved) *)

\* the step is one of a price job on instance i
PriceJobStep(i) ==
    /\ inv[i].kind \in PriceKinds
    /\ inv'[i].id = inv[i].id
    /\ inv'[i] # inv[i]

\* C29: a price job that runs while the catalog store holds at least one
\* item requests no page from the upstream and leaves the catalog store as
\* it is.
C29_NoFetchUnlessStoreEmpty ==
    [][\A i \in Inv :
        (PriceJobStep(i) /\ lego_catalog # EmptyColl) =>
            /\ inv'[i].requests = inv[i].requests
            /\ lego_catalog' = lego_catalog]_vars

\* C29, as far as it holds: a price job whose catalog query selects an item
\* requests no page and leaves the catalog store as it is.
C29_NoFetchWhenSelectable ==
    [][\A i \in Inv :
        (PriceJobStep(i) /\ ~NothingSelectable) =>
            /\ inv'[i].requests = inv[i].requests
            /\ lego_catalog' = lego_catalog]_vars

\* C29, the failing case: no stored item is available or retiring_soon; a
\* price job has requested the upstream's pages and written the catalog.
C29_FetchedOverFilledStore ==
    /\ inv[1].kind \in PriceKinds
    /\ Len(inv[1].requests) = 2
    /\ inv[1].batches # << >>
    /\ Cardinality(DOMAIN lego_catalog) = 4

\* C30: a write to the catalog leaves the availability of every item that
\* is stored as sold_out, coming_soon or retiring_soon as it is.
C30_AvailabilityKept ==
    [][\A k \in DOMAIN lego_catalog :
        lego_catalog[k].availability \in {"sold_out", "coming_soon", "retiring_soon"} =>
            /\ k \in DOMAIN lego_catalog'
            /\ lego_catalog'[k].availability = lego_catalog[k].availability]_vars

\* C30, as far as it holds: the availability of an item that the job does
\* not write is kept.
C30_AvailabilityKeptUnlessWritten ==
    [][\A k \in DOMAIN lego_catalog :
        (\A i \in Inv : \A n \in 1..Len(inv[i].sets) : inv[i].sets[n].setNumber # k) =>
            /\ k \in DOMAIN lego_catalog'
            /\ lego_catalog'[k].availability = lego_catalog[k].availability]_vars

\* C30, what the code does instead: once a job has written a chunk, every
\* item of the chunk is stored as available, whatever it was stored as.
C30_ReIngestionResets ==
    \A i \in Inv : \A b \in 1..Len(inv[i].batches) : \A n \in 1..Len(inv[i].batches[b]) :
        lego_catalog[inv[i].batches[b][n]].availability = "available"

\* C30, the failing cases: a catalog job, or a price job that seeds, has
\* re-written items 1 and 4, none of which was stored as available or
\* retiring_soon when the job started.
ReIngested(K) ==
    /\ inv[1].kind \in K
    /\ inv[1].batches = << << SetNum(1), SetNum(4), SetNum(6) >> >>
    /\ lego_catalog[SetNum(1)].availability = "available"
    /\ lego_catalog[SetNum(4)].availability = "available"
    /\ lego_catalog[SetNum(7)].availability = "sold_out"

C30_ResetByCatalogJob == ReIngested(CatalogKinds)

C30_ResetBySeeding == ReIngested(PriceKinds)

----------------------------------------------------------------------------
(* Claims on a catalog job that fetches nothing (SpecResync) *)

\* fetchFromRebrickable has returned [] to the catalog job L, which has ended
\* without entering its catch block
FetchedNothing(L) ==
    /\ L.kind \in CatalogKinds
    /\ L.pc = "done"
    /\ ~L.threw
    /\ L.sets = << >>

\* C31: a catalog job whose fetch returned no item has committed no batch,
\* and the catalog store is as it was before the job; the on-demand job has
\* answered HTTP 500 and the scheduled job has returned.  The step that
\* ends such a job changes no store.
C31_EmptyFetchWritesNothing ==
    /\ [](\A i \in Inv :
            FetchedNothing(inv[i]) =>
                /\ inv[i].batches = << >>
                /\ lego_catalog = SeededCatalog
                /\ inv[i].kind = "manualCatalogUpdate" =>
                      (inv[i].status = "failed" /\ inv[i].outcome = "http500")
                /\ inv[i].kind = "updateLegoCatalog" =>
                      (inv[i].status = "completed" /\ inv[i].outcome = "returned"))
    /\ [][\A i \in Inv :
            (~FetchedNothing(inv[i]) /\ FetchedNothing(inv'[i])) =>
                /\ lego_catalog' = lego_catalog
                /\ prices' = prices
                /\ deals' = deals]_vars

\* C31 witness: the upstream answered the first request of the on-demand
\* catalog job with a non-success status; the job has answered 500 and the
\* two stored items are as they were.
C31_Witness ==
    /\ FetchedNothing(inv[1])
    /\ inv[1].kind = "manualCatalogUpdate"
    /\ inv[1].outcome = "http500"
    /\ inv[1].fetchLog = << "api_error" >>
    /\ DOMAIN lego_catalog = {SetNum(1), SetNum(7)}
    /\ lego_catalog[SetNum(1)].availability = "retiring_soon"

\* C31, the scheduled job: the first page came back empty; the job has
\* returned normally with nothing written.
C31_ScheduledCase ==
    /\ FetchedNothing(inv[1])
    /\ inv[1].kind = "updateLegoCatalog"
    /\ inv[1].status = "completed"
    /\ inv[1].fetchLog = << "no_results" >>
    /\ lego_catalog = SeededCatalog

----------------------------------------------------------------------------
(* Claims on the generator's discount and the percent-off (SpecDraw) *)

\* the discounts generateSimulatedPrice can draw
Discounts == {0} \cup 10..60

\* every pair of retailer and draws of Math.random(), on every whole
\* reference price from 1 to 100 and on 830: the percent-off computed from
\* the observation is the discount drawn
WholePrices == {100 * n : n \in (1..100) \cup {830}}

GeneratorAgrees ==
    \A price \in WholePrices : \A r \in {"lego", "amazon"} : \A draw \in AllDraws :
        PercentOff([originalPrice |-> price,
                    currentPrice |-> CurrentPrice(price, DiscountPercent(r, draw))])
            = DiscountPercent(r, draw)

\* what C32 says of one observation
AsDrawn(p) ==
    /\ PercentOff(p) \in Discounts
    /\ p.currentPrice * 100 = p.originalPrice * (100 - PercentOff(p))
    /\ p.currentPrice <= p.originalPrice
    /\ (p.inStock /\ PercentOff(p) # 0) => Qualifies(p)

\* C32: on a whole reference price, the percent-off the price job computes
\* from a generated observation is the discount the generator drew for it:
\* 0 at "lego", else the second discount (40..60) when the second coin flip
\* fired, else the first (10..40) when the first fired, else 0.  So the
\* current price is at most the reference price, every observation that is
\* in stock with a discount other than 0 qualifies, and a completed job has
\* stored a deal with that percent-off for each such observation.
C32_PercentOffIsDiscountDrawn ==
    /\ [](GeneratorAgrees)
    /\ [][\A i \in Inv :
            (inv[i].pc = "price" /\ inv'[i].pc = "savePrice") =>
                LET L == inv[i]
                    p == inv'[i].priceData
                IN  \A draw \in SomeDraws :
                        p = GeneratePrice(LoopSets(L)[L.si], L.retailers[L.ri], draw, now)
                            => PercentOff(p) = DiscountPercent(L.retailers[L.ri], draw)]_vars
    /\ [](\A i \in Inv : inv[i].priceData # NoPrice => AsDrawn(inv[i].priceData))
    /\ [](\A k \in DOMAIN prices : AsDrawn(prices[k]))
    /\ [](\A i \in Inv :
            (inv[i].kind \in PriceKinds /\ inv[i].status = "completed") =>
                \A k \in DOMAIN prices :
                    (prices[k].inStock /\ PercentOff(prices[k]) # 0) <=>
                        (k \in DOMAIN deals /\ deals[k].percentOff = PercentOff(prices[k])))

\* C32 witness: the job has completed; the item of reference price 3.00 is
\* stored at "amazon" at 1.20, which only the second discount gives, and
\* its deal says 60 percent off; at "lego" it is stored at 3.00.
C32_Witness ==
    /\ inv[1].status = "completed"
    /\ prices[DocId(SetNum(1), "lego")].currentPrice = 300
    /\ prices[DocId(SetNum(1), "amazon")].originalPrice = 300
    /\ prices[DocId(SetNum(1), "amazon")].currentPrice = 120
    /\ DOMAIN deals = {DocId(SetNum(1), "amazon")}
    /\ deals[DocId(SetNum(1), "amazon")].percentOff = 60

\* C32, first discount alone: 10 percent off 2.00 is stored as 1.80 and is a
\* deal of 10 percent
C32_SmallestCase ==
    /\ inv[1].status = "completed"
    /\ DocId(SetNum(1), "amazon") \in DOMAIN deals
    /\ deals[DocId(SetNum(1), "amazon")].currentPrice = 180
    /\ deals[DocId(SetNum(1), "amazon")].percentOff = 10

----------------------------------------------------------------------------
(* Claims on the sweep of a run and the run's own deals (SpecSlow) *)

\* the deals in store that the invocation of SpecSlow, triggered at TickMs,
\* has upserted (the deals of InitAged were written at time 0)
OwnDeals(coll) == {k \in DOMAIN coll : coll[k].lastUpdated >= TickMs}

\* C33: the sweep of a price job that runs alone and for less than the
\* horizon queries and deletes none of the deals the job has upserted: each
\* commit of deletes leaves them as they are, and when the job has completed
\* the store holds as many deals of its own as it counted upserts.
C33_SweepSparesOwnDeals ==
    /\ [][\A i \in Inv :
            inv[i].pc \in {"cleanQuery", "cleanCommit"} =>
                /\ OwnDeals(deals) \cap SeqToSet(inv'[i].oldDeals) = {}
                /\ \A k \in OwnDeals(deals) : k \in DOMAIN deals' /\ deals'[k] = deals[k]]_vars
    /\ [](\A i \in Inv :
            (inv[i].kind \in PriceKinds /\ inv[i].status = "completed") =>
                /\ now - TickMs < HorizonMs
                /\ Cardinality(OwnDeals(deals)) = inv[i].dealsFound
                /\ \A k \in OwnDeals(deals) : deals[k].lastUpdated >= inv[i].cutoff)

\* C33 witness: the job upserted a deal at its start, at "amazon"; 200
\* seconds later it upserted none at "walmart", and 100 seconds after that
\* its sweep deleted the old deal at "walmart"; the job has completed and
\* its own deal is in store.
C33_Witness ==
    /\ inv[1].status = "completed"
    /\ now = TickMs + TimeoutMs
    /\ inv[1].dealsFound = 1
    /\ inv[1].deleted = << << DocId(AgedItem.setNumber, "walmart") >> >>
    /\ DOMAIN deals = {DocId(AgedItem.setNumber, "amazon")}
    /\ deals[DocId(AgedItem.setNumber, "amazon")].lastUpdated = TickMs
    /\ prices[DocId(AgedItem.setNumber, "walmart")].lastUpdated = TickMs + 2 * ElapseMs

====
